---- MODULE Spec2Model ----
(***************************************************************************)
(* Report Viewer of amzaiagent.com (initReport and its helpers):           *)
(* resolution of a report id over the local store, window.reportsData and  *)
(* the remote index, rendering through marked, table-of-contents           *)
(* generation and the scroll-spy; and the homepage hero search of          *)
(* script_v2.js, which hands an ASIN to the creation page through the     *)
(* 'asin' query parameter, and the creation page of script_v2.js: the      *)
(* ASIN validation, the modals, the submission handlers and the file       *)
(* lists, with the payment button of the order page.                       *)
(*                                                                         *)
(* Text is a sequence of UTF-16 code units (numbers), so that slugify is   *)
(* computed character by character as the regular expressions do.          *)
(***************************************************************************)
EXTENDS Integers, Sequences, FiniteSets, TLC

\* ------------------------------------------------------------------ bounds
\* longest collection of records in the local store and in the remote index
MaxRecords == 2
\* longest collection of records in window.reportsData
MaxGlobal == 2
\* most blocks in a document drawn for the table-of-contents specification
MaxHeadings == 3
\* longest heading text enumerated over SlugAlphabet
MaxTextLen == 2
\* most entries delivered in one intersection-observer batch
MaxBatch == 2
\* most calls of renderMarkdown on one page in the re-rendering specification
MaxRenders == 2
\* longest text typed into the hero search field
MaxAsinLen == 3
\* most empty submissions of the hero form whose timers are still pending
MaxPending == 2
\* most competitor tokens typed into #comp-asin
MaxTokens == 2
\* most requests one page issues
MaxRequests == 2
\* most files one change event of a file input carries
MaxSelect == 2
\* most files a file input is given in all
MaxKeys == 3

\* ------------------------------------------------------------- text helpers
RECURSIVE SeqsUpTo(_, _)
\* all sequences over S of length at most n
SeqsUpTo(S, n) ==
  IF n = 0 THEN {<<>>}
  ELSE LET shorter == SeqsUpTo(S, n - 1)
       IN shorter \cup {Append(s, x) : s \in {t \in shorter : Len(t) = n - 1}, x \in S}

\* 'heading-'
HeadingPrefix == <<104, 101, 97, 100, 105, 110, 103, 45>>
Hyphen == 45

\* String.prototype.toLowerCase on one code unit: A-Z, and the Kelvin sign
\* (U+212A) whose lower case is the ASCII k
ToLower(c) ==
  IF c \in 65..90 THEN c + 32
  ELSE IF c = 8490 THEN 107
  ELSE c

\* \s of a JavaScript regular expression, which is also what trim() strips
SpaceChars ==
  (9..13) \cup {32, 160, 5760, 8232, 8233, 8239, 8287, 12288, 65279} \cup (8192..8202)

\* \w of a JavaScript regular expression (no u/i flag): [A-Za-z0-9_]
WordChars == (48..57) \cup (65..90) \cup {95} \cup (97..122)

\* the class kept by /[^\w\u4e00-\u9fa5-]/g
KeptChars == WordChars \cup (19968..40869) \cup {Hyphen}

IsKept(c) == c \in KeptChars

LowerCase(s) == [i \in 1..Len(s) |-> ToLower(s[i])]

RECURSIVE TrimLeft(_, _)
\* drop the leading characters that are in class
TrimLeft(s, class) ==
  IF s # <<>> /\ Head(s) \in class THEN TrimLeft(Tail(s), class) ELSE s

RECURSIVE TrimRight(_, _)
\* drop the trailing characters that are in class
TrimRight(s, class) ==
  IF s # <<>> /\ s[Len(s)] \in class THEN TrimRight(SubSeq(s, 1, Len(s) - 1), class) ELSE s

\* String.prototype.trim
Trim(s) == TrimRight(TrimLeft(s, SpaceChars), SpaceChars)

RECURSIVE CollapseRuns(_, _, _)
\* replace(/[class]+/g, r): every maximal run of characters of class becomes r
CollapseRuns(s, class, r) ==
  IF s = <<>> THEN <<>>
  ELSE IF Head(s) \in class THEN <<r>> \o CollapseRuns(TrimLeft(s, class), class, r)
  ELSE <<Head(s)>> \o CollapseRuns(Tail(s), class, r)

\* replace(/[^\w\u4e00-\u9fa5-]/g, '')
StripOther(s) == SelectSeq(s, IsKept)

\* a slugify without toLowerCase()
slugify_KeepCase(text) ==
  LET hyphened  == CollapseRuns(Trim(text), SpaceChars, Hyphen)
      collapsed == CollapseRuns(StripOther(hyphened), {Hyphen}, Hyphen)
  IN TrimRight(TrimLeft(collapsed, {Hyphen}), {Hyphen})

\* slugify(text): lower-case, trim, whitespace runs to '-', strip the other
\* characters, collapse hyphen runs, trim hyphens
slugify(text) ==
  LET lowered   == LowerCase(text)
      trimmed   == Trim(lowered)
      hyphened  == CollapseRuns(trimmed, SpaceChars, Hyphen)
      stripped  == StripOther(hyphened)
      collapsed == CollapseRuns(stripped, {Hyphen}, Hyphen)
  IN TrimRight(TrimLeft(collapsed, {Hyphen}), {Hyphen})

RECURSIVE NumStr(_)
\* the decimal digits of a natural number, as a template literal prints it
NumStr(n) == IF n < 10 THEN <<48 + n>> ELSE NumStr(n \div 10) \o <<48 + (n % 10)>>

\* ---------------------------------------------------------------- documents
\* A document is a sequence of markdown blocks; an element of the view is the
\* block rendered by marked, with the id generateTOC gives a heading.
NoId == <<>>
Heading(level, text) == [kind |-> "heading", level |-> level, text |-> text]
\* a paragraph, table, list or block quote
Block == [kind |-> "block", level |-> 0, text |-> <<>>]
\* a raw HTML block of the document, e.g. <img src=x onerror=...>
RawHtml == [kind |-> "html", level |-> 0, text |-> <<>>]

\* the built-in sample document of loadSampleMarkdown: its headings, and its
\* other blocks (paragraphs, table, quotes, lists)
sampleMarkdown ==
  <<
    \* line 139: # 1. Market Overview & Competitor Background
    Heading(1, <<49, 46, 32, 77, 97, 114, 107, 101, 116, 32, 79, 118, 101, 114, 118, 105, 101, 119, 32, 38, 32, 67, 111, 109, 112, 101, 116, 105, 116, 111, 114, 32, 66, 97, 99, 107, 103, 114, 111, 117, 110, 100>>),
    \* line 141: ## 1.1 Core Product Information
    Heading(2, <<49, 46, 49, 32, 67, 111, 114, 101, 32, 80, 114, 111, 100, 117, 99, 116, 32, 73, 110, 102, 111, 114, 109, 97, 116, 105, 111, 110>>),
    Block,
    Block,
    Block,
    \* line 153: ## 1.2 Market Positioning Analysis
    Heading(2, <<49, 46, 50, 32, 77, 97, 114, 107, 101, 116, 32, 80, 111, 115, 105, 116, 105, 111, 110, 105, 110, 103, 32, 65, 110, 97, 108, 121, 115, 105, 115>>),
    Block,
    Block,
    \* line 160: # 2. Deep User Review Mining
    Heading(1, <<50, 46, 32, 68, 101, 101, 112, 32, 85, 115, 101, 114, 32, 82, 101, 118, 105, 101, 119, 32, 77, 105, 110, 105, 110, 103>>),
    \* line 162: ## 2.1 Positive Sentiment Analysis
    Heading(2, <<50, 46, 49, 32, 80, 111, 115, 105, 116, 105, 118, 101, 32, 83, 101, 110, 116, 105, 109, 101, 110, 116, 32, 65, 110, 97, 108, 121, 115, 105, 115>>),
    Block,
    \* line 165: ### 2.1.1 Sound Quality Performance
    Heading(3, <<50, 46, 49, 46, 49, 32, 83, 111, 117, 110, 100, 32, 81, 117, 97, 108, 105, 116, 121, 32, 80, 101, 114, 102, 111, 114, 109, 97, 110, 99, 101>>),
    Block,
    Block,
    \* line 172: ### 2.1.2 Comfort
    Heading(3, <<50, 46, 49, 46, 50, 32, 67, 111, 109, 102, 111, 114, 116>>),
    Block,
    Block,
    \* line 177: # 3. Marketing Strategy Recommendations
    Heading(1, <<51, 46, 32, 77, 97, 114, 107, 101, 116, 105, 110, 103, 32, 83, 116, 114, 97, 116, 101, 103, 121, 32, 82, 101, 99, 111, 109, 109, 101, 110, 100, 97, 116, 105, 111, 110, 115>>),
    \* line 179: ## 3.1 Keyword Optimization (SEO)
    Heading(2, <<51, 46, 49, 32, 75, 101, 121, 119, 111, 114, 100, 32, 79, 112, 116, 105, 109, 105, 122, 97, 116, 105, 111, 110, 32, 40, 83, 69, 79, 41>>),
    Block,
    Block,
    \* line 186: ## 3.2 Off-Site Promotion Opportunities
    Heading(2, <<51, 46, 50, 32, 79, 102, 102, 45, 83, 105, 116, 101, 32, 80, 114, 111, 109, 111, 116, 105, 111, 110, 32, 79, 112, 112, 111, 114, 116, 117, 110, 105, 116, 105, 101, 115>>),
    Block,
    \* line 190: # 4. Improvement Recommendations Summary
    Heading(1, <<52, 46, 32, 73, 109, 112, 114, 111, 118, 101, 109, 101, 110, 116, 32, 82, 101, 99, 111, 109, 109, 101, 110, 100, 97, 116, 105, 111, 110, 115, 32, 83, 117, 109, 109, 97, 114, 121>>),
    Block,
    Block
  >>

\* marked.parse with the default marked.Renderer and {gfm, breaks}: a heading
\* becomes an h<level> element, and a raw HTML block is passed through as it
\* is (Renderer.html returns the text of the token), which innerHTML then
\* parses into live elements.
MarkedBlock(tok) ==
  [kind |-> tok.kind, level |-> tok.level, text |-> tok.text,
   live |-> (tok.kind = "html"), id |-> NoId]

MarkedParse(doc) == [i \in 1..Len(doc) |-> MarkedBlock(doc[i])]

\* contentContainer.querySelectorAll('h1, h2, h3, h4'): positions in the view,
\* in document order
RECURSIVE SelectHeaders_AllLevels(_, _)
\* a selector that takes the headings of every level
SelectHeaders_AllLevels(elems, from) ==
  IF from > Len(elems) THEN <<>>
  ELSE IF elems[from].kind = "heading"
       THEN <<from>> \o SelectHeaders_AllLevels(elems, from + 1)
       ELSE SelectHeaders_AllLevels(elems, from + 1)

RECURSIVE SelectHeaders(_, _)
SelectHeaders(elems, from) ==
  IF from > Len(elems) THEN <<>>
  ELSE IF elems[from].kind = "heading" /\ elems[from].level \in 1..4
       THEN <<from>> \o SelectHeaders(elems, from + 1)
       ELSE SelectHeaders(elems, from + 1)

\* a loop that increments the counter before it builds the candidate: slug,
\* slug-2, slug-3, ...
UniqueSlug_SkipsOne(slug, counter, usedIds) ==
  LET taken(n) == (IF n = 0 THEN slug ELSE slug \o <<Hyphen>> \o NumStr(n + 1)) \in usedIds
      n == CHOOSE n \in 0..Cardinality(usedIds) :
             ~taken(n) /\ \A m \in 0..(n - 1) : taken(m)
  IN IF n = 0 THEN slug ELSE slug \o <<Hyphen>> \o NumStr(n + 1)

\* a loop body that runs at most once: slug, or slug-1 when slug is taken
UniqueSlug_Once(slug, counter, usedIds) ==
  IF slug \in usedIds THEN slug \o <<Hyphen>> \o NumStr(1) ELSE slug

RECURSIVE UniqueSlug(_, _, _)
\* the while loop of generateTOC: uniqueSlug is slug, then slug-1, slug-2, ...
\* until it is not in usedIds; called with counter = 0 for the bare slug
UniqueSlug(slug, counter, usedIds) ==
  LET candidate == IF counter = 0 THEN slug ELSE slug \o <<Hyphen>> \o NumStr(counter)
  IN IF candidate \in usedIds THEN UniqueSlug(slug, counter + 1, usedIds) ELSE candidate

\* baseSlug || `heading-${index}` (index is 0-based among the selected headers)
SlugOrFallback(text, index) ==
  LET baseSlug == slugify(text)
  IN IF baseSlug # <<>> THEN baseSlug ELSE HeadingPrefix \o NumStr(index)

RECURSIVE AssignIds(_, _, _)
\* headers.forEach of generateTOC: the ids given to the headers from position
\* k on, usedIds being the ids given before
AssignIds(texts, k, usedIds) ==
  IF k > Len(texts) THEN <<>>
  ELSE LET id == UniqueSlug(SlugOrFallback(texts[k], k - 1), 0, usedIds)
       IN <<id>> \o AssignIds(texts, k + 1, usedIds \cup {id})

\* the ids generateTOC assigns to a sequence of heading texts
HeaderIds(texts) == AssignIds(texts, 1, {})

\* ------------------------------------------------------------------ records
\* report.content: undefined, or a document text (the empty text is '')
NoContent == [present |-> FALSE, text |-> <<>>]
Inline(doc) == [present |-> TRUE, text |-> doc]
\* !markdownContent is false: the content is there and is not the empty string
Truthy(content) == content.present /\ content.text # <<>>

\* a null element of a collection (JSON null); r.id throws on it
NullItem ==
  [id |-> "<null>", title |-> <<"null", 0>>, created_at |-> 0,
   content |-> NoContent, markdown_path |-> <<"null", 0>>]

\* Array.prototype.find(r => r.id === reportId): the position of the first
\* record with that id, 0 when there is none, -1 when the callback throws on
\* a null element met before any match
RECURSIVE FindFrom(_, _, _)
FindFrom(items, id, k) ==
  IF k > Len(items) THEN 0
  ELSE IF items[k] = NullItem THEN -1
  ELSE IF items[k].id = id THEN k
  ELSE FindFrom(items, id, k + 1)

Find(items, id) == FindFrom(items, id, 1)

\* the documents records and responses carry in the resolution specification
DocA ==
  << Heading(1, <<77, 97, 114, 107, 101, 116, 32, 79, 118, 101, 114, 118, 105, 101, 119>>),
     RawHtml,
     Heading(2, <<77, 97, 114, 107, 101, 116, 32, 79, 118, 101, 114, 118, 105, 101, 119>>),
     Block >>
DocPlain == << Block >>

\* the shapes of the elements of a collection: id and content
ItemShapes ==
  { [id |-> "abc", content |-> NoContent],
    [id |-> "abc", content |-> Inline(DocA)],
    [id |-> "abc", content |-> Inline(<<>>)],
    [id |-> "xyz", content |-> Inline(DocA)],
    [id |-> "<null>", content |-> NoContent] }

\* the record of a shape at position i of the collection of source src
MkItem(shape, src, i) ==
  IF shape.id = "<null>" THEN NullItem
  ELSE [id |-> shape.id, title |-> <<src, i>>, created_at |-> i,
        content |-> shape.content, markdown_path |-> <<src, i>>]

\* the empty string as a title
NoTitle == <<>>

\* a record whose title is the empty string
Untitled(item) == [item EXCEPT !.title = NoTitle]

\* the collections of source src: up to n elements of the given shapes
Collections(src, shapes, n) ==
  { [i \in 1..Len(s) |-> MkItem(s[i], src, i)] : s \in SeqsUpTo(shapes, n) }

\* the shapes of the elements of window.reportsData
GlobalShapes == {sh \in ItemShapes : sh.id # "<null>" /\ sh.content # Inline(<<>>)}

\* a stored or received JSON value: kind says what JSON.parse makes of it
Json(kind, items) == [kind |-> kind, items |-> items]

\* localStorage.getItem('my_reports'): absent (null or ''), text JSON.parse
\* rejects, the JSON null, a JSON object or number, a JSON string, an array
LocalStores ==
  {Json(k, <<>>) : k \in {"absent", "badjson", "null", "object", "string"}}
    \cup {Json("array", c) : c \in Collections("local", ItemShapes, MaxRecords)}

\* window.reportsData: undefined, an array, or another truthy value
GlobalValues ==
  {Json(k, <<>>) : k \in {"undefined", "object"}}
    \cup {Json("array", c) : c \in Collections("global", GlobalShapes, MaxGlobal)}

\* the settlement of fetch('data/reports/index.json?v=...'): rejected, a
\* non-success status, a body json() rejects, a body that is no array, an array
IndexResponses ==
  {Json(k, <<>>) : k \in {"reject", "notok", "badjson", "nonarray"}}
    \cup {Json("array", c) : c \in Collections("remote", ItemShapes, MaxRecords)}

\* the settlement of fetch(report.markdown_path): rejected, a non-success
\* status, or a text
ContentResponses ==
  {[kind |-> k, text |-> <<>>] : k \in {"reject", "notok"}}
    \cup {[kind |-> "ok", text |-> d] : d \in {DocA, DocPlain, <<>>}}

\* the values of the id query parameter that are falsy: none, the empty string
NoReportIds == {"<none>", ""}

\* the stores a page without id is loaded with: they are not read
IdleLocalStores ==
  {Json("absent", <<>>), Json("badjson", <<>>),
   Json("array", <<MkItem([id |-> "abc", content |-> Inline(DocA)], "local", 1)>>)}
IdleGlobalValues ==
  {Json("undefined", <<>>),
   Json("array", <<MkItem([id |-> "abc", content |-> NoContent], "global", 1)>>)}

\* --------------------------------------------------------------------- state
VARIABLES
  reportId,      \* urlParams.get('id'), "<none>" for null
  localStore,    \* localStorage 'my_reports'
  reportsData,   \* window.reportsData
  markedLib,     \* window.marked: "absent", "ok", or "broken" (its calls throw)
  observerApi,   \* TRUE when IntersectionObserver is defined
  pc,            \* where initReport is: start, awaitIndex, awaitContent, done, escaped
  report,        \* the record initReport resolved (NullItem before)
  reportSource,  \* the source it came from: none, local, global, remote
  sourcesRead,   \* the sources consulted, in order
  fetchLog,      \* the fetches issued, in order
  indexResp,     \* how the index fetch settled (kind "none" before)
  contentResp,   \* how the content fetch settled (kind "none" before)
  meta,          \* report title and date elements, document.title, breadcrumb
  view,          \* contentContainer
  toc,           \* the links of tocContainer
  observed,      \* the view positions the IntersectionObserver observes
  renders,       \* how many times renderMarkdown wrote the container
  consoleErr,    \* what the catch block logged
  sitePage,      \* the page script_v2.js runs on: viewer, home, navigating, create
  heroInput,     \* value of #hero-asin-input
  heroError,     \* TRUE while #hero-error-msg is displayed
  heroBorder,    \* border of #hero-asin-input: normal or error
  heroTimers,    \* the pending setTimeout callbacks, in firing order
  location,      \* window.location.href, relative to the site
  mainAsin,      \* value of #main-asin on the creation page
  compAsin,      \* value of #comp-asin
  proEmail,      \* value of #pro-email-input
  userEmail,     \* value of the hidden field #user-email
  isProIntent,   \* let isProIntent
  modal,         \* TRUE while #modal (free) has the class 'active'
  paymentModal,  \* TRUE while #payment-modal has the class 'active'
  proLocked,     \* TRUE while the pro section is locked behind its overlay
  asinValidity,  \* custom validity and border of #main-asin and #comp-asin
  payDepositBtn, \* #pay-deposit-btn: disabled, text
  submitBtn,     \* .submit-btn of #modal-form: disabled, text
  paymentCompleteBtn, \* #payment-complete-btn of the order page: disabled, text
  pendingPayload, \* localStorage 'pending_pro_payload'
  requests,      \* the requests the page issued, in order
  inFlight,      \* the handlers that await their request: pay, submit, order
  filesMap,      \* filesMap of a file input: its entries in insertion order
  fileList,      \* the keys of the entries listEl shows with a delete button
  clearHidden,   \* clearBtn.hidden
  nextKey        \* how many keys were made: stands for Date.now() and Math.random()

formState == <<userEmail, isProIntent, modal, paymentModal, proLocked, asinValidity,
               payDepositBtn, submitBtn, paymentCompleteBtn, pendingPayload, requests,
               inFlight>>
formVars == <<compAsin, proEmail, formState>>
fileVars == <<filesMap, fileList, clearHidden, nextKey>>
viewerVars == <<reportId, localStore, reportsData, markedLib, observerApi, pc, report,
                reportSource, sourcesRead, fetchLog, indexResp, contentResp, meta, view,
                toc, observed, renders, consoleErr>>
heroVars == <<heroInput, heroError, heroBorder, heroTimers>>
siteVars == <<sitePage, heroInput, heroError, heroBorder, heroTimers, location, mainAsin,
              formVars, fileVars>>
env == <<reportId, localStore, reportsData, markedLib, observerApi>>
vars == <<reportId, localStore, reportsData, markedLib, observerApi, pc, report,
          reportSource, sourcesRead, fetchLog, indexResp, contentResp, meta, view,
          toc, observed, renders, consoleErr, siteVars>>

NotFoundMsg == "Report not found"
GenericMsg == "Bummer! Failed to load report. Please refresh and try again."
RendererMsg == "Markdown renderer failed to load"
ContentError == "Unable to load report content"

\* the loading placeholder the page starts with
LoadingView == [kind |-> "loading", msg |-> "", link |-> "", elems |-> <<>>]

\* showError(message): contentContainer.innerHTML is the error state alone
showError(message) ==
  [kind |-> "error", msg |-> message, link |-> "cases.html", elems |-> <<>>]

\* ' - Amz AI Agent', the suffix of document.title
TitleSuffix == "Amz AI Agent"

\* the title texts, date and breadcrumb label of the page as served
InitialMeta ==
  [reportTitle |-> <<"page", 0>>, reportDate |-> 0,
   docTitle |-> [title |-> <<"page", 0>>, suffix |-> ""], breadcrumb |-> <<"page", 0>>]

\* the mutable part of the state, as one record the steps of initReport update
Cur ==
  [pc |-> pc, report |-> report, reportSource |-> reportSource,
   sourcesRead |-> sourcesRead, fetchLog |-> fetchLog, indexResp |-> indexResp,
   contentResp |-> contentResp, meta |-> meta,
   view |-> view, toc |-> toc, observed |-> observed, renders |-> renders,
   consoleErr |-> consoleErr]

\* a step that also stores the resolved record in localStorage 'my_reports'
Set_CachesReport(s) ==
  /\ pc' = s.pc
  /\ report' = s.report
  /\ reportSource' = s.reportSource
  /\ sourcesRead' = s.sourcesRead
  /\ fetchLog' = s.fetchLog
  /\ indexResp' = s.indexResp
  /\ contentResp' = s.contentResp
  /\ meta' = s.meta
  /\ view' = s.view
  /\ toc' = s.toc
  /\ observed' = s.observed
  /\ renders' = s.renders
  /\ consoleErr' = s.consoleErr
  /\ localStore' = IF s.report = NullItem THEN localStore ELSE Json("array", <<s.report>>)
  /\ UNCHANGED <<reportId, reportsData, markedLib, observerApi, siteVars>>

Set(s) ==
  /\ pc' = s.pc
  /\ report' = s.report
  /\ reportSource' = s.reportSource
  /\ sourcesRead' = s.sourcesRead
  /\ fetchLog' = s.fetchLog
  /\ indexResp' = s.indexResp
  /\ contentResp' = s.contentResp
  /\ meta' = s.meta
  /\ view' = s.view
  /\ toc' = s.toc
  /\ observed' = s.observed
  /\ renders' = s.renders
  /\ consoleErr' = s.consoleErr
  /\ UNCHANGED <<env, siteVars>>

\* ----------------------------------------------------------------- rendering
\* generateTOC, the ids: header.id = uniqueSlug for every selected header
WithHeaderIds(elems) ==
  LET headers == SelectHeaders(elems, 1)
      ids == HeaderIds([k \in 1..Len(headers) |-> elems[headers[k]].text])
  IN [p \in 1..Len(elems) |->
        IF \E k \in 1..Len(headers) : headers[k] = p
        THEN [elems[p] EXCEPT !.id = ids[CHOOSE k \in 1..Len(headers) : headers[k] = p]]
        ELSE elems[p]]

\* generateTOC, the links: one <a href="#id" class="toc-h<level>"> per selected
\* header, none of them active; target is the header its click handler closes over
TocLinks(elems) ==
  LET headers == SelectHeaders(elems, 1)
  IN [k \in 1..Len(headers) |->
        [href |-> <<35>> \o elems[headers[k]].id, text |-> elems[headers[k]].text,
         cls |-> elems[headers[k]].level, target |-> headers[k], active |-> FALSE]]

\* setupScrollSpy: observer.observe(header) for every selected header
ObservedHeaders(elems) ==
  LET headers == SelectHeaders(elems, 1) IN {headers[k] : k \in 1..Len(headers)}

\* a default activation that marks the last link
ActivateFirst_Last(links) ==
  IF links = <<>> THEN links ELSE [links EXCEPT ![Len(links)].active = TRUE]

\* firstLink.classList.add('active')
ActivateFirst(links) ==
  IF links = <<>> THEN links ELSE [links EXCEPT ![1].active = TRUE]

\* an updateActiveLink that adds 'active' without clearing the other links
updateActiveLink_NoClear(links, k) == [links EXCEPT ![k].active = TRUE]

\* updateActiveLink(activeLink): remove 'active' from every link, add it to this one
updateActiveLink(links, k) ==
  [i \in 1..Len(links) |-> [links[i] EXCEPT !.active = (i = k)]]

DocumentView(elems) == [kind |-> "document", msg |-> "", link |-> "", elems |-> elems]

\* a renderMarkdown without the window.marked guard: new marked.Renderer()
\* throws when marked is missing
renderMarkdown_NoGuard(s, markdownContent) ==
  IF markedLib # "ok"
  THEN [threw |-> TRUE, s |-> s]
  ELSE LET elems == WithHeaderIds(MarkedParse(markdownContent))
           s1 == [s EXCEPT !.view = DocumentView(elems), !.toc = TocLinks(elems),
                           !.renders = @ + 1]
       IN IF ~observerApi
          THEN [threw |-> TRUE, s |-> s1]
          ELSE [threw |-> FALSE,
                s |-> [s1 EXCEPT !.observed = ObservedHeaders(elems),
                                 !.toc = ActivateFirst(s1.toc)]]

\* a renderMarkdown whose usedIds survive from the render before
renderMarkdown_StaleIds(s, markdownContent) ==
  LET parsed == MarkedParse(markdownContent)
      headers == SelectHeaders(parsed, 1)
      stale == {s.view.elems[p].id : p \in 1..Len(s.view.elems)} \ {NoId}
      ids == AssignIds([k \in 1..Len(headers) |-> parsed[headers[k]].text], 1, stale)
      elems == [p \in 1..Len(parsed) |->
                  IF \E k \in 1..Len(headers) : headers[k] = p
                  THEN [parsed[p] EXCEPT !.id = ids[CHOOSE k \in 1..Len(headers) : headers[k] = p]]
                  ELSE parsed[p]]
  IN [threw |-> FALSE,
      s |-> [s EXCEPT !.view = DocumentView(elems), !.renders = @ + 1,
                      !.observed = ObservedHeaders(elems),
                      !.toc = ActivateFirst(TocLinks(elems))]]

\* renderMarkdown(markdownContent) from state s: the state it leaves, and
\* whether it threw. Without window.marked it shows the error and returns; a
\* marked whose calls throw throws before the container is written; without
\* IntersectionObserver setupScrollSpy throws after generateTOC.
renderMarkdown(s, markdownContent) ==
  IF markedLib = "absent"
  THEN [threw |-> FALSE, s |-> [s EXCEPT !.view = showError(RendererMsg)]]
  ELSE IF markedLib = "broken"
  THEN [threw |-> TRUE, s |-> s]
  ELSE LET elems == WithHeaderIds(MarkedParse(markdownContent))
           s1 == [s EXCEPT !.view = DocumentView(elems), !.toc = TocLinks(elems),
                           !.renders = @ + 1]
       IN IF ~observerApi
          THEN [threw |-> TRUE, s |-> s1]
          ELSE [threw |-> FALSE,
                s |-> [s1 EXCEPT !.observed = ObservedHeaders(elems),
                                 !.toc = ActivateFirst(s1.toc)]]

\* a catch block that shows the error and starts the resolution again
Caught_Retries(s, error) ==
  [s EXCEPT !.pc = "start", !.consoleErr = error, !.view = showError(GenericMsg)]

\* the catch block of initReport: console.error and the generic error state
Caught(s, error) ==
  [s EXCEPT !.pc = "done", !.consoleErr = error, !.view = showError(GenericMsg)]

\* await renderMarkdown(markdownContent) inside the try block
RenderInTry(s, markdownContent) ==
  LET r == renderMarkdown(s, markdownContent)
  IN IF r.threw THEN Caught(r.s, "RenderError") ELSE [r.s EXCEPT !.pc = "done"]

\* a sample path that looks into the local store before rendering
loadSampleMarkdown_ReadsStore(s) ==
  LET r == renderMarkdown([s EXCEPT !.sourcesRead = Append(@, "local")], sampleMarkdown)
  IN IF r.threw THEN [r.s EXCEPT !.pc = "escaped"] ELSE [r.s EXCEPT !.pc = "done"]

\* await loadSampleMarkdown(); return;  -- outside the try block, so what
\* renderMarkdown throws rejects the promise of initReport
loadSampleMarkdown(s) ==
  LET r == renderMarkdown(s, sampleMarkdown)
  IN IF r.threw THEN [r.s EXCEPT !.pc = "escaped"] ELSE [r.s EXCEPT !.pc = "done"]

\* "2. Update Metadata" and updateBreadcrumbTitle(report.title), which sets
\* the label only for a truthy title
UpdateMeta(old, rec) ==
  [reportTitle |-> rec.title, reportDate |-> rec.created_at,
   docTitle |-> [title |-> rec.title, suffix |-> TitleSuffix],
   breadcrumb |-> IF rec.title # NoTitle THEN rec.title ELSE old.breadcrumb]

\* fetch(url) without an init argument is a GET request
IndexFetch == [kind |-> "index", path |-> <<"index", 0>>, method |-> "GET"]
ContentFetch(rec) == [kind |-> "content", path |-> rec.markdown_path, method |-> "GET"]

\* a content step that fetches markdown_path whatever the record carries
WithReport_AlwaysFetch(s, rec, src) ==
  [s EXCEPT !.report = rec, !.reportSource = src, !.meta = UpdateMeta(@, rec),
            !.pc = "awaitContent", !.fetchLog = Append(@, ContentFetch(rec))]

\* a content step that updates the metadata only once the content is at hand
WithReport_MetaAfterContent(s, rec, src) ==
  LET s1 == [s EXCEPT !.report = rec, !.reportSource = src]
  IN IF Truthy(rec.content)
     THEN RenderInTry([s1 EXCEPT !.meta = UpdateMeta(@, rec)], rec.content.text)
     ELSE [s1 EXCEPT !.pc = "awaitContent",
                     !.fetchLog = Append(@, ContentFetch(rec))]

\* initReport from "2. Update Metadata" on, with the record found in source src
WithReport(s, rec, src) ==
  LET s1 == [s EXCEPT !.report = rec, !.reportSource = src, !.meta = UpdateMeta(@, rec)]
  IN IF Truthy(rec.content)
     THEN RenderInTry(s1, rec.content.text)
     ELSE [s1 EXCEPT !.pc = "awaitContent",
                     !.fetchLog = Append(@, ContentFetch(rec))]

\* a not-found branch that returns without showing anything
NotFound_Silent(s) == [s EXCEPT !.pc = "done"]

\* if (!report) { showError('Report not found'); return; }
NotFound(s) == [s EXCEPT !.pc = "done", !.view = showError(NotFoundMsg)]

\* an index fetch that starts the content fetch of a guessed path with it
FetchIndex_Prefetch(s) ==
  [s EXCEPT !.pc = "awaitIndex",
            !.fetchLog = @ \o <<IndexFetch, ContentFetch([markdown_path |-> <<"remote", 1>>])>>,
            !.sourcesRead = Append(@, "remote")]

\* const indexResponse = await fetch(`data/reports/index.json?v=...`)
FetchIndex(s) ==
  [s EXCEPT !.pc = "awaitIndex", !.fetchLog = Append(@, IndexFetch),
            !.sourcesRead = Append(@, "remote")]

\* if (window.reportsData) report = window.reportsData.find(...); then the fetch
AfterLocal(s) ==
  LET s1 == [s EXCEPT !.sourcesRead = Append(@, "global")]
      g == Find(reportsData.items, reportId)
  IN IF reportsData.kind = "undefined" THEN FetchIndex(s1)
     ELSE IF reportsData.kind = "object" \/ g = -1 THEN Caught(s1, "TypeError")
     ELSE IF g > 0 THEN WithReport(s1, reportsData.items[g], "global")
     ELSE FetchIndex(s1)

\* a lookup that lets window.reportsData win over the local store
Resolve_GlobalFirst(s) == AfterLocal([s EXCEPT !.sourcesRead = Append(@, "local")])

\* "1. Load Index": JSON.parse(localStorage.getItem('my_reports') || '[]'),
\* reports.find, and what follows until the first await or the end
Resolve(s) ==
  LET s1 == [s EXCEPT !.sourcesRead = Append(@, "local")]
      reports == IF localStore.kind = "array" THEN localStore.items ELSE <<>>
      f == Find(reports, reportId)
  IN IF localStore.kind = "badjson" THEN Caught(s1, "SyntaxError")
     ELSE IF localStore.kind \in {"null", "string"} \/ f = -1 THEN Caught(s1, "TypeError")
     ELSE IF f > 0 THEN WithReport(s1, reports[f], "local")
     ELSE AfterLocal(s1)

\* ------------------------------------------------------------------- actions
\* initReport() up to its first await, or to its end
StartInitReport ==
  /\ pc = "start"
  /\ Set(IF reportId \in NoReportIds THEN loadSampleMarkdown(Cur) ELSE Resolve(Cur))

\* the index fetch settles; initReport resumes
IndexSettles ==
  /\ pc = "awaitIndex"
  /\ \E resp \in IndexResponses :
       LET f == Find(resp.items, reportId)
           s == [Cur EXCEPT !.indexResp = resp]
       IN Set(IF resp.kind = "reject" THEN Caught(s, "NetworkError")
              ELSE IF resp.kind = "notok" THEN NotFound(s)
              ELSE IF resp.kind = "badjson" THEN Caught(s, "SyntaxError")
              ELSE IF resp.kind = "nonarray" \/ f = -1 THEN Caught(s, "TypeError")
              ELSE IF f > 0 THEN WithReport(s, resp.items[f], "remote")
              ELSE NotFound(s))

\* a continuation that reads the body without looking at mdResponse.ok
ContentSettles_NoOkCheck ==
  /\ pc = "awaitContent"
  /\ \E resp \in ContentResponses :
       LET s == [Cur EXCEPT !.contentResp = resp]
       IN Set(IF resp.kind = "reject" THEN Caught(s, "NetworkError")
              ELSE RenderInTry(s, resp.text))

\* the content fetch settles; initReport resumes
ContentSettles ==
  /\ pc = "awaitContent"
  /\ \E resp \in ContentResponses :
       LET s == [Cur EXCEPT !.contentResp = resp]
       IN Set(IF resp.kind = "reject" THEN Caught(s, "NetworkError")
              ELSE IF resp.kind = "notok" THEN Caught(s, ContentError)
              ELSE RenderInTry(s, resp.text))

\* a click handler that closes over the first link instead of its own
ClickLinkAt_FirstLink(k) == toc' = updateActiveLink(toc, 1)

\* the click handler of link k: updateActiveLink(a) with its own link
ClickLinkAt(k) == toc' = updateActiveLink(toc, k)

\* the click handler of a table-of-contents link
ClickLink ==
  /\ \E k \in 1..Len(toc) : ClickLinkAt(k)
  /\ UNCHANGED <<env, pc, report, reportSource, sourcesRead, fetchLog, indexResp,
                 contentResp, meta, view, observed, renders, consoleErr, siteVars>>

\* tocContainer.querySelector(`a[href="#${id}"]`): the first link with that href
LinkWithHref(links, href) ==
  IF \E k \in 1..Len(links) : links[k].href = href
  THEN CHOOSE k \in 1..Len(links) :
         links[k].href = href /\ \A j \in 1..(k - 1) : links[j].href # href
  ELSE 0

RECURSIVE ObserverCallback_FirstWins(_, _, _)
\* a callback that stops at the first intersecting entry with a link
ObserverCallback_FirstWins(links, entries, k) ==
  IF k > Len(entries) THEN links
  ELSE LET link == LinkWithHref(links, <<35>> \o view.elems[entries[k].target].id)
       IN IF entries[k].isIntersecting /\ link > 0
          THEN updateActiveLink(links, link)
          ELSE ObserverCallback_FirstWins(links, entries, k + 1)

RECURSIVE ObserverCallback(_, _, _)
\* the IntersectionObserver callback: entries.forEach from entry k on
ObserverCallback(links, entries, k) ==
  IF k > Len(entries) THEN links
  ELSE LET link == LinkWithHref(links, <<35>> \o view.elems[entries[k].target].id)
       IN IF entries[k].isIntersecting /\ link > 0
          THEN ObserverCallback(updateActiveLink(links, link), entries, k + 1)
          ELSE ObserverCallback(links, entries, k + 1)

\* the observer delivers a batch of entries for observed headers
ObserverBatch ==
  /\ observed # {}
  /\ \E entries \in SeqsUpTo([target : observed, isIntersecting : BOOLEAN], MaxBatch) \ {<<>>} :
       toc' = ObserverCallback(toc, entries, 1)
  /\ UNCHANGED <<env, pc, report, reportSource, sourcesRead, fetchLog, indexResp,
                 contentResp, meta, view, observed, renders, consoleErr, siteVars>>

\* --------------------------------------------------------------- hero search
\* 'asin'
AsinName == <<97, 115, 105, 110>>
\* 'create.html?asin='
CreatePrefix ==
  <<99, 114, 101, 97, 116, 101, 46, 104, 116, 109, 108, 63>> \o AsinName \o <<61>>
\* 'index.html'
HomeUrl == <<105, 110, 100, 101, 120, 46, 104, 116, 109, 108>>

\* hexadecimal digit of n, upper case
HexDigit(n) == IF n < 10 THEN 48 + n ELSE 55 + n

IsHex(c) == c \in (48..57) \cup (65..70) \cup (97..102)

HexVal(c) == IF c \in 48..57 THEN c - 48 ELSE IF c \in 65..70 THEN c - 55 ELSE c - 87

\* the UTF-8 bytes of a code unit that is no surrogate
Utf8(c) ==
  IF c < 128 THEN <<c>>
  ELSE IF c < 2048 THEN <<192 + (c \div 64), 128 + (c % 64)>>
  ELSE <<224 + (c \div 4096), 128 + ((c \div 64) % 64), 128 + (c % 64)>>

RECURSIVE PercentEncode(_)
\* %XX for every byte
PercentEncode(bytes) ==
  IF bytes = <<>> THEN <<>>
  ELSE <<37, HexDigit(Head(bytes) \div 16), HexDigit(Head(bytes) % 16)>>
         \o PercentEncode(Tail(bytes))

\* the characters encodeURIComponent leaves alone: A-Z a-z 0-9 - _ . ! ~ * ' ( )
UriUnreserved ==
  (65..90) \cup (97..122) \cup (48..57) \cup {45, 95, 46, 33, 126, 42, 39, 40, 41}

RECURSIVE EncodeURIComponent_AsEncodeURI(_)
\* encodeURI in place of encodeURIComponent: ; / ? : @ & = + $ , # are kept too
EncodeURIComponent_AsEncodeURI(s) ==
  IF s = <<>> THEN <<>>
  ELSE (IF Head(s) \in UriUnreserved \cup {59, 47, 63, 58, 64, 38, 61, 43, 36, 44, 35}
        THEN <<Head(s)>>
        ELSE PercentEncode(Utf8(Head(s))))
         \o EncodeURIComponent_AsEncodeURI(Tail(s))

RECURSIVE EncodeURIComponent(_)
\* encodeURIComponent(asin), for text without surrogates
EncodeURIComponent(s) ==
  IF s = <<>> THEN <<>>
  ELSE (IF Head(s) \in UriUnreserved THEN <<Head(s)>>
        ELSE PercentEncode(Utf8(Head(s))))
         \o EncodeURIComponent(Tail(s))

\* `create.html?asin=${encodeURIComponent(asin)}`
HeroRedirect(asin) == CreatePrefix \o EncodeURIComponent(asin)

\* first position of ch in s, 0 when there is none
IndexOf(s, ch) ==
  IF \E i \in 1..Len(s) : s[i] = ch
  THEN CHOOSE i \in 1..Len(s) : s[i] = ch /\ \A j \in 1..(i - 1) : s[j] # ch
  ELSE 0

\* the characters the URL parser percent-encodes in the query of an http(s) URL
QueryEncodeSet == (0..32) \cup {34, 35, 39, 60, 62, 127}

RECURSIVE QueryEncode(_)
QueryEncode(s) ==
  IF s = <<>> THEN <<>>
  ELSE (IF Head(s) \in QueryEncodeSet \/ Head(s) > 127
        THEN PercentEncode(Utf8(Head(s))) ELSE <<Head(s)>>)
         \o QueryEncode(Tail(s))

\* window.location.search of the page reached by href: from the first '?' to
\* the fragment, '' when the query is empty
Search(href) ==
  LET h == IndexOf(href, 35)
      noFragment == IF h = 0 THEN href ELSE SubSeq(href, 1, h - 1)
      q == IndexOf(noFragment, 63)
  IN IF q = 0 \/ q = Len(noFragment) THEN <<>>
     ELSE <<63>> \o QueryEncode(SubSeq(noFragment, q + 1, Len(noFragment)))

RECURSIVE SplitOn(_, _)
\* the pieces of s between the occurrences of sep
SplitOn(s, sep) ==
  LET i == IndexOf(s, sep)
  IN IF i = 0 THEN <<s>>
     ELSE <<SubSeq(s, 1, i - 1)>> \o SplitOn(SubSeq(s, i + 1, Len(s)), sep)

\* '+' stands for a space in application/x-www-form-urlencoded
PlusToSpace(s) == [i \in 1..Len(s) |-> IF s[i] = 43 THEN 32 ELSE s[i]]

RECURSIVE PercentDecode(_)
\* the bytes of s, with every %XX replaced by the byte it names
PercentDecode(s) ==
  IF s = <<>> THEN <<>>
  ELSE IF Head(s) = 37 /\ Len(s) >= 3 /\ IsHex(s[2]) /\ IsHex(s[3])
       THEN <<16 * HexVal(s[2]) + HexVal(s[3])>> \o PercentDecode(SubSeq(s, 4, Len(s)))
       ELSE Utf8(Head(s)) \o PercentDecode(Tail(s))

\* continuation bytes a UTF-8 lead byte asks for, -1 for a byte that leads nothing
Utf8Needed(b) ==
  IF b < 128 THEN 0
  ELSE IF b \in 194..223 THEN 1
  ELSE IF b \in 224..239 THEN 2
  ELSE IF b \in 240..244 THEN 3
  ELSE -1

\* the values the byte after lead byte b may take
Utf8Second(b) ==
  (IF b = 224 THEN 160 ELSE IF b = 240 THEN 144 ELSE 128)
    .. (IF b = 237 THEN 159 ELSE IF b = 244 THEN 143 ELSE 191)

\* a code point as UTF-16 code units
CodeUnits(cp) ==
  IF cp < 65536 THEN <<cp>>
  ELSE <<55296 + ((cp - 65536) \div 1024), 56320 + ((cp - 65536) % 1024)>>

RECURSIVE Utf8Decode(_)
\* UTF-8 decode without BOM: U+FFFD for every ill-formed sequence
Utf8Decode(bytes) ==
  IF bytes = <<>> THEN <<>>
  ELSE LET b == Head(bytes)
           n == Utf8Needed(b)
           Valid(i) == /\ Len(bytes) >= 1 + i
                       /\ bytes[1 + i] \in (IF i = 1 THEN Utf8Second(b) ELSE 128..191)
           good == Cardinality({i \in 1..n : \A j \in 1..i : Valid(j)})
           cp == IF n = 1 THEN (b - 192) * 64 + (bytes[2] - 128)
                 ELSE IF n = 2
                      THEN (b - 224) * 4096 + (bytes[2] - 128) * 64 + (bytes[3] - 128)
                 ELSE (b - 240) * 262144 + (bytes[2] - 128) * 4096
                        + (bytes[3] - 128) * 64 + (bytes[4] - 128)
       IN IF n = 0 THEN <<b>> \o Utf8Decode(Tail(bytes))
          ELSE IF n = -1 THEN <<65533>> \o Utf8Decode(Tail(bytes))
          ELSE IF good = n
               THEN CodeUnits(cp) \o Utf8Decode(SubSeq(bytes, n + 2, Len(bytes)))
          ELSE <<65533>> \o Utf8Decode(SubSeq(bytes, good + 2, Len(bytes)))

\* a name or a value of a query string, decoded
FormDecode(s) == Utf8Decode(PercentDecode(PlusToSpace(s)))

NoParam == [found |-> FALSE, value |-> <<>>]

RECURSIVE GetFrom(_, _, _)
\* the value of the first name=value piece with that name, from piece k on
GetFrom(pieces, name, k) ==
  IF k > Len(pieces) THEN NoParam
  ELSE LET piece == pieces[k]
           eq == IndexOf(piece, 61)
           nm == IF eq = 0 THEN piece ELSE SubSeq(piece, 1, eq - 1)
           val == IF eq = 0 THEN <<>> ELSE SubSeq(piece, eq + 1, Len(piece))
       IN IF piece # <<>> /\ FormDecode(nm) = name
          THEN [found |-> TRUE, value |-> FormDecode(val)]
          ELSE GetFrom(pieces, name, k + 1)

\* new URLSearchParams(search).get(name); found is FALSE for null
URLSearchParamsGet(search, name) ==
  LET query == IF search # <<>> /\ Head(search) = 63 THEN Tail(search) ELSE search
  IN GetFrom(SplitOn(query, 38), name, 1)

\* how many pending callbacks of one kind
Pending(timers, kind) == Cardinality({i \in 1..Len(timers) : timers[i] = kind})

\* the earliest place in the queue the 2000 ms callback of a new submission can
\* take: behind every pending 2000 ms callback, and behind the 3000 ms
\* callbacks of the submissions whose 2000 ms callback has fired
MinSlot(timers) ==
  LET fired == Pending(timers, "error") - Pending(timers, "border")
      behind == {i \in 1..Len(timers) :
                   \/ timers[i] = "border"
                   \/ Pending(SubSeq(timers, 1, i), "error") <= fired}
  IN IF behind = {} THEN 0 ELSE CHOOSE i \in behind : \A j \in behind : j <= i

\* the submit handler of #hero-search-form
SubmitHeroForm ==
  /\ sitePage = "home"
  /\ LET asin == Trim(heroInput)
     IN IF asin = <<>>
        THEN /\ Pending(heroTimers, "error") < MaxPending
             /\ heroError' = TRUE
             /\ heroBorder' = "error"
             /\ \E slot \in MinSlot(heroTimers)..Len(heroTimers) :
                  heroTimers' = SubSeq(heroTimers, 1, slot) \o <<"border">>
                                  \o SubSeq(heroTimers, slot + 1, Len(heroTimers))
                                  \o <<"error">>
             /\ UNCHANGED <<sitePage, location>>
        ELSE /\ location' = HeroRedirect(asin)
             /\ sitePage' = "navigating"
             /\ UNCHANGED <<heroError, heroBorder, heroTimers>>
  /\ UNCHANGED <<heroInput, mainAsin, formVars, fileVars>>
  /\ UNCHANGED <<env, pc, report, reportSource, sourcesRead, fetchLog, indexResp,
                 contentResp, meta, view, toc, observed, renders, consoleErr>>

\* the next setTimeout callback of the submit handler runs
HeroTimerFires ==
  /\ sitePage = "home"
  /\ heroTimers # <<>>
  /\ heroTimers' = Tail(heroTimers)
  /\ heroBorder' = IF Head(heroTimers) = "border" THEN "normal" ELSE heroBorder
  /\ heroError' = IF Head(heroTimers) = "error" THEN FALSE ELSE heroError
  /\ UNCHANGED <<sitePage, heroInput, location, mainAsin, formVars, fileVars>>
  /\ UNCHANGED <<env, pc, report, reportSource, sourcesRead, fetchLog, indexResp,
                 contentResp, meta, view, toc, observed, renders, consoleErr>>

\* initApp on the creation page: the pre-fill of #main-asin
LoadCreatePage ==
  /\ sitePage = "navigating"
  /\ sitePage' = "create"
  /\ LET prefillAsin == URLSearchParamsGet(Search(location), AsinName)
     IN mainAsin' = IF prefillAsin.found /\ prefillAsin.value # <<>>
                    THEN prefillAsin.value ELSE mainAsin
  /\ UNCHANGED <<heroInput, heroError, heroBorder, heroTimers, location, formVars, fileVars>>
  /\ UNCHANGED <<env, pc, report, reportSource, sourcesRead, fetchLog, indexResp,
                 contentResp, meta, view, toc, observed, renders, consoleErr>>

\* ------------------------------------------------------------- creation page
\* String.prototype.toUpperCase on one code unit that stays one code unit:
\* a-z, and the long s (U+017F) and dotless i (U+0131) whose upper cases are ASCII
ToUpper(c) ==
  IF c \in 97..122 THEN c - 32
  ELSE IF c = 383 THEN 83
  ELSE IF c = 305 THEN 73
  ELSE c

UpperCase(s) == [i \in 1..Len(s) |-> ToUpper(s[i])]

\* /^B[A-Z0-9]{9}$/i .test(s): the i flag folds a-z only
asinRegex(s) ==
  /\ Len(s) = 10
  /\ s[1] \in {66, 98}
  /\ \A i \in 2..10 : s[i] \in (48..57) \cup (65..90) \cup (97..122)

RECURSIVE SplitRuns(_, _)
\* s.split(/[class]+/): the pieces between the maximal runs of class characters
SplitRuns(s, class) ==
  IF \A i \in 1..Len(s) : s[i] \notin class THEN <<s>>
  ELSE LET i == CHOOSE k \in 1..Len(s) :
                  s[k] \in class /\ \A j \in 1..(k - 1) : s[j] \notin class
       IN <<SubSeq(s, 1, i - 1)>>
            \o SplitRuns(TrimLeft(SubSeq(s, i, Len(s)), class), class)

\* .filter(s => s)
NonEmpty(pieces) == SelectSeq(pieces, LAMBDA x : x # <<>>)

\* validateAsins: compAsinValue.split(/[\n,\s]+/).map(s => s.trim().toUpperCase()).filter(s => s)
ValidatedTokens(compAsinValue) ==
  LET pieces == SplitRuns(compAsinValue, SpaceChars \cup {44})
  IN NonEmpty([i \in 1..Len(pieces) |-> UpperCase(Trim(pieces[i]))])

\* value.trim().split(/[\n,]+/).map(s => s.trim()).filter(s => s)
PayloadTokens(value) ==
  LET pieces == SplitRuns(Trim(value), {10, 44})
  IN NonEmpty([i \in 1..Len(pieces) |-> Trim(pieces[i])])

\* the custom validity validateAsins gives #main-asin
MainValidity(value) ==
  LET mainAsinValue == UpperCase(Trim(value))
  IN IF mainAsinValue = <<>> THEN "empty"
     ELSE IF ~asinRegex(mainAsinValue) THEN "format"
     ELSE "valid"

\* the custom validity validateAsins gives #comp-asin
CompValidity(value) ==
  LET compAsinValue == Trim(value)
      compAsins == ValidatedTokens(compAsinValue)
  IN IF compAsinValue = <<>> THEN "empty"
     ELSE IF \E i \in 1..Len(compAsins) : ~asinRegex(compAsins[i]) THEN "format"
     ELSE "valid"

\* what validateAsins leaves on the two fields
Validated(main, comp) == [main |-> MainValidity(main), comp |-> CompValidity(comp)]

\* the value validateAsins returns
validateAsins(main, comp) ==
  MainValidity(main) = "valid" /\ CompValidity(comp) = "valid"

\* 'B08CVS825S', 'b09xwyq8q5', 'B08'
Asin1 == <<66, 48, 56, 67, 86, 83, 56, 50, 53, 83>>
Asin2 == <<98, 48, 57, 120, 119, 121, 113, 56, 113, 53>>
BadAsin == <<66, 48, 56>>

\* a button: its disabled attribute and its text
Button(disabled, text) == [disabled |-> disabled, text |-> text]

\* the text a button has in the markup of its page
MarkupText == "markup"

NoPayload == [present |-> FALSE, user_email |-> <<>>, main_asins |-> <<>>,
              competitor_asins |-> <<>>]

\* proPayload and payload: the fields taken from the form (the other fields
\* are constants and values of selects)
Payload(email, main, comp) ==
  [present |-> TRUE, user_email |-> email, main_asins |-> <<Trim(main)>>,
   competitor_asins |-> PayloadTokens(comp)]

\* fetch('/api/proxy/create-checkout', {method: 'POST', ...})
CheckoutRequest(amount) ==
  [url |-> "/api/proxy/create-checkout", method |-> "POST", amount |-> amount,
   user_email |-> <<>>, reference_asins |-> <<>>]

\* fetch('/api/discovery/start-task', {method: 'POST', body: backendPayload})
StartTaskRequest(payload) ==
  [url |-> "/api/discovery/start-task", method |-> "POST", amount |-> "0",
   user_email |-> payload.user_email,
   reference_asins |-> <<payload.main_asins[1]>> \o payload.competitor_asins]

\* 'guest@example.com'
GuestEmail == <<103, 117, 101, 115, 116, 64, 101, 120, 97, 109, 112, 108, 101, 46, 99, 111, 109>>

\* how a request settles: rejected, or a response with its status and what
\* json() makes of its body: a rejection, null, an object without url, an
\* object with url, an array whose first element has a url
Responses ==
  {[kind |-> "reject", ok |-> FALSE, body |-> "none"]}
    \cup [kind : {"response"}, ok : BOOLEAN,
          body : {"badjson", "null", "nourl", "url", "arrayurl"}]

\* the part of the creation and order pages the handlers change
FormCur ==
  [sitePage |-> sitePage, location |-> location, userEmail |-> userEmail,
   isProIntent |-> isProIntent, modal |-> modal, paymentModal |-> paymentModal,
   proLocked |-> proLocked, asinValidity |-> asinValidity,
   payDepositBtn |-> payDepositBtn, submitBtn |-> submitBtn,
   paymentCompleteBtn |-> paymentCompleteBtn, pendingPayload |-> pendingPayload,
   requests |-> requests, inFlight |-> inFlight]

SetForm(f) ==
  /\ sitePage' = f.sitePage
  /\ location' = f.location
  /\ userEmail' = f.userEmail
  /\ isProIntent' = f.isProIntent
  /\ modal' = f.modal
  /\ paymentModal' = f.paymentModal
  /\ proLocked' = f.proLocked
  /\ asinValidity' = f.asinValidity
  /\ payDepositBtn' = f.payDepositBtn
  /\ submitBtn' = f.submitBtn
  /\ paymentCompleteBtn' = f.paymentCompleteBtn
  /\ pendingPayload' = f.pendingPayload
  /\ requests' = f.requests
  /\ inFlight' = f.inFlight
  /\ UNCHANGED <<mainAsin, compAsin, proEmail, viewerVars, heroVars, fileVars>>

\* 'https://checkout.stripe.com/pay', standing for the payment URL of the response
PaymentUrl ==
  <<104, 116, 116, 112, 115, 58, 47, 47, 99, 104, 101, 99, 107, 111, 117, 116, 46,
    115, 116, 114, 105, 112, 101, 46, 99, 111, 109, 47, 112, 97, 121>>

\* `processing.html?taskId=${taskId}&email=${email}&pro=false`, with 'T' for the task id
ProcessingUrl(email) ==
  <<112, 114, 111, 99, 101, 115, 115, 105, 110, 103, 46, 104, 116, 109, 108, 63,
    116, 97, 115, 107, 73, 100, 61, 84, 38, 101, 109, 97, 105, 108, 61>>
    \o EncodeURIComponent(email) \o <<38, 112, 114, 111, 61, 102, 97, 108, 115, 101>>

\* window.location.href = url: the page is left, its handlers run no more
Redirect(f, url) == [f EXCEPT !.location = url, !.sitePage = "left", !.inFlight = {}]

\* a handler that is past its await; originalText is the text it saved
Awaiting(handler, originalText) ==
  [handler |-> handler, originalText |-> originalText, user_email |-> <<>>]

\* the handler of that name is awaiting its request
IsAwaiting(handler) == \E a \in inFlight : a.handler = handler

\* analysisForm 'submit': validateAsins, then the modal of the chosen path
AnalysisFormSubmit ==
  /\ sitePage = "create"
  /\ LET f == [FormCur EXCEPT !.asinValidity = Validated(mainAsin, compAsin)]
     IN SetForm(IF ~validateAsins(mainAsin, compAsin) THEN f
                ELSE IF isProIntent THEN [f EXCEPT !.paymentModal = TRUE]
                ELSE [f EXCEPT !.modal = TRUE])

\* modalClose, paymentModalClose 'click': both modals lose 'active'
CloseModal ==
  /\ sitePage = "create"
  /\ SetForm([FormCur EXCEPT !.modal = FALSE, !.paymentModal = FALSE])

\* switchToProLink 'click'
SwitchToPro ==
  /\ sitePage = "create"
  /\ SetForm([FormCur EXCEPT !.modal = FALSE, !.isProIntent = TRUE, !.paymentModal = TRUE])

\* unlockOverlay 'click'; the overlay is hidden afterwards
UnlockOverlayClick ==
  /\ sitePage = "create"
  /\ proLocked
  /\ SetForm([FormCur EXCEPT !.isProIntent = TRUE, !.proLocked = FALSE])

\* the user replaces the texts of #main-asin and #comp-asin
TypeAsins ==
  /\ sitePage = "create"
  /\ \E m \in {Asin1, BadAsin}, c \in {Asin1, <<>>, BadAsin} :
       /\ <<m, c>> # <<mainAsin, compAsin>>
       /\ mainAsin' = m
       /\ compAsin' = c
  /\ UNCHANGED <<sitePage, location, proEmail, formState, viewerVars, heroVars, fileVars>>

\* a pay-deposit handler that validates nothing
PayDeposit_NoValidation(f) ==
  LET email == Trim(proEmail)
  IN IF email = <<>> \/ 64 \notin {email[i] : i \in 1..Len(email)}
     THEN [f EXCEPT !.payDepositBtn = Button(FALSE, "Pay $4.99 with Stripe (Sandbox)")]
     ELSE [f EXCEPT !.userEmail = email,
                    !.pendingPayload = Payload(email, mainAsin, compAsin),
                    !.payDepositBtn = Button(TRUE, "Creating Payment..."),
                    !.requests = Append(@, CheckoutRequest("4.99")),
                    !.inFlight = @ \cup {Awaiting("pay", f.payDepositBtn.text)}]

\* payDepositBtn 'click' up to its await
PayDeposit(f) ==
  LET f1 == [f EXCEPT !.asinValidity = Validated(mainAsin, compAsin)]
      email == Trim(proEmail)
  IN IF ~validateAsins(mainAsin, compAsin) THEN f1
     ELSE IF email = <<>> \/ 64 \notin {email[i] : i \in 1..Len(email)}
     THEN [f1 EXCEPT !.payDepositBtn = Button(FALSE, "Pay $4.99 with Stripe (Sandbox)")]
     ELSE [f1 EXCEPT !.userEmail = email,
                     !.pendingPayload = Payload(email, mainAsin, compAsin),
                     !.payDepositBtn = Button(TRUE, "Creating Payment..."),
                     !.requests = Append(@, CheckoutRequest("4.99")),
                     !.inFlight = @ \cup {Awaiting("pay", f.payDepositBtn.text)}]

\* a click on #pay-deposit-btn, which a disabled button does not get
PayDepositClick ==
  /\ sitePage = "create"
  /\ ~payDepositBtn.disabled
  /\ Len(requests) < MaxRequests
  /\ SetForm(PayDeposit(FormCur))

\* a pay-deposit continuation whose catch block leaves the button as it is
PayDepositSettled_NoReset(f, resp) ==
  LET f1 == [f EXCEPT !.inFlight = {a \in @ : a.handler # "pay"}]
  IN IF resp.kind = "response" /\ resp.ok /\ resp.body \in {"url", "arrayurl"}
     THEN Redirect(f1, PaymentUrl)
     ELSE f1

\* the pay-deposit handler after its await: redirect to the payment URL, or
\* the catch block
PayDepositSettled(f, resp) ==
  LET f1 == [f EXCEPT !.inFlight = {a \in @ : a.handler # "pay"}]
  IN IF resp.kind = "response" /\ resp.ok /\ resp.body \in {"url", "arrayurl"}
     THEN Redirect(f1, PaymentUrl)
     ELSE [f1 EXCEPT !.payDepositBtn = Button(FALSE, "Try Again")]

\* the create-checkout request of the pay-deposit handler settles
CheckoutSettles ==
  /\ sitePage = "create"
  /\ IsAwaiting("pay")
  /\ \E resp \in Responses : SetForm(PayDepositSettled(FormCur, resp))

\* handleSubmission(false) up to its await
handleSubmission(f) ==
  LET f1 == [f EXCEPT !.asinValidity = Validated(mainAsin, compAsin)]
      email == IF Trim(f.userEmail) = <<>> THEN GuestEmail ELSE Trim(f.userEmail)
      payload == Payload(email, mainAsin, compAsin)
  IN IF ~validateAsins(mainAsin, compAsin) THEN f1
     ELSE [f1 EXCEPT !.submitBtn = Button(TRUE, "Generating..."),
                     !.requests = Append(@, StartTaskRequest(payload)),
                     !.inFlight = @ \cup {[Awaiting("submit", f.submitBtn.text)
                                             EXCEPT !.user_email = email]}]

\* modalForm 'submit', which a disabled submit button does not trigger
ModalFormSubmit ==
  /\ sitePage = "create"
  /\ ~submitBtn.disabled
  /\ Len(requests) < MaxRequests
  /\ SetForm(handleSubmission(FormCur))

\* handleSubmission(false) after its await: redirect to the processing page
\* (data.report_id of an object or an array may be undefined), or the catch block
SubmissionSettled(f, resp) ==
  LET saved == CHOOSE a \in f.inFlight : a.handler = "submit"
      f1 == [f EXCEPT !.inFlight = {a \in @ : a.handler # "submit"}]
  IN IF resp.kind = "response" /\ resp.ok /\ resp.body \in {"nourl", "url", "arrayurl"}
     THEN Redirect(f1, ProcessingUrl(saved.user_email))
     ELSE [f1 EXCEPT !.submitBtn = Button(FALSE, saved.originalText)]

\* the start-task request of handleSubmission settles
StartTaskSettles ==
  /\ sitePage = "create"
  /\ IsAwaiting("submit")
  /\ \E resp \in Responses : SetForm(SubmissionSettled(FormCur, resp))

\* 'order_id'
OrderIdName == <<111, 114, 100, 101, 114, 95, 105, 100>>
\* 'order.html' and 'order.html?order_id=1'
OrderUrl == <<111, 114, 100, 101, 114, 46, 104, 116, 109, 108>>
OrderUrlWithId == OrderUrl \o <<63>> \o OrderIdName \o <<61, 49>>

\* DOMContentLoaded of the order page: without order_id it returns before the
\* button gets its text and its listener
LoadOrderPage ==
  /\ sitePage = "orderLoading"
  /\ LET orderId == URLSearchParamsGet(Search(location), OrderIdName)
     IN SetForm(IF orderId.found /\ orderId.value # <<>>
                THEN [FormCur EXCEPT !.sitePage = "order",
                        !.paymentCompleteBtn = Button(FALSE, "Pay $25.00 with Stripe (Sandbox)")]
                ELSE [FormCur EXCEPT !.sitePage = "orderNoId"])

\* handlePaymentComplete up to its await
handlePaymentComplete(f) ==
  [f EXCEPT !.paymentCompleteBtn = Button(TRUE, "Creating Payment..."),
            !.requests = Append(@, CheckoutRequest("25.00")),
            !.inFlight = @ \cup {Awaiting("order", f.paymentCompleteBtn.text)}]

\* a click on #payment-complete-btn
PaymentCompleteClick ==
  /\ sitePage = "order"
  /\ ~paymentCompleteBtn.disabled
  /\ Len(requests) < MaxRequests
  /\ SetForm(handlePaymentComplete(FormCur))

\* handlePaymentComplete after its await: response.ok is not looked at
PaymentCompleteSettled(f, resp) ==
  LET f1 == [f EXCEPT !.inFlight = {a \in @ : a.handler # "order"}]
  IN IF resp.kind = "response" /\ resp.body = "url"
     THEN Redirect(f1, PaymentUrl)
     ELSE [f1 EXCEPT !.paymentCompleteBtn = Button(FALSE, "Pay Remaining $25.00 (Sandbox)")]

\* the create-checkout request of handlePaymentComplete settles
OrderCheckoutSettles ==
  /\ sitePage = "order"
  /\ IsAwaiting("order")
  /\ \E resp \in Responses : SetForm(PaymentCompleteSettled(FormCur, resp))

\* ----------------------------------------------------------------- file lists
\* String.prototype.endsWith
EndsWith(s, suffix) ==
  Len(s) >= Len(suffix) /\ SubSeq(s, Len(s) - Len(suffix) + 1, Len(s)) = suffix

\* '.csv', '.txt'
DotCsv == <<46, 99, 115, 118>>
DotTxt == <<46, 116, 120, 116>>

\* name.endsWith('.csv') || name.endsWith('.txt') for name = file.name.toLowerCase()
IsValidFile(file) ==
  LET name == LowerCase(file.name)
  IN EndsWith(name, DotCsv) \/ EndsWith(name, DotTxt)

\* an entry of filesMap; the key `${file.name}-${file.size}-${Date.now()}-${Math.random()}`
\* is held by the number n of the key, two keys being taken as never equal
Entry(n, file) == [key |-> n, file |-> file]

RECURSIVE AddFiles(_, _, _)
\* validFiles.forEach(file => filesMap.set(key, file)), n keys made before
AddFiles(map, files, n) ==
  IF files = <<>> THEN map
  ELSE AddFiles(Append(map, Entry(n + 1, Head(files))), Tail(files), n + 1)

\* renderFileList: one item with a delete button for every entry
ListOf(map) == [i \in 1..Len(map) |-> map[i].key]

\* the 'change' handler of the file input for the files chosen
ChangeFilesWith(newFiles) ==
  LET validFiles == SelectSeq(newFiles, IsValidFile)
      map == AddFiles(filesMap, validFiles, nextKey)
  IN /\ filesMap' = map
     /\ nextKey' = nextKey + Len(validFiles)
     /\ fileList' = ListOf(map)
     /\ clearHidden' = (map = <<>>)

\* a deletion by file name: every entry with the name of the clicked one goes
DeleteFileAt_ByName(k) ==
  LET clicked == CHOOSE i \in 1..Len(filesMap) : filesMap[i].key = fileList[k]
      map == SelectSeq(filesMap, LAMBDA e : e.file.name # filesMap[clicked].file.name)
  IN /\ filesMap' = map
     /\ fileList' = ListOf(map)
     /\ clearHidden' = (map = <<>>)
     /\ UNCHANGED nextKey

\* the 'click' handler of the delete button of item k: filesMap.delete(key),
\* renderFileList
DeleteFileAt(k) ==
  LET map == SelectSeq(filesMap, LAMBDA e : e.key # fileList[k])
  IN /\ filesMap' = map
     /\ fileList' = ListOf(map)
     /\ clearHidden' = (map = <<>>)
     /\ UNCHANGED nextKey

\* 'a.csv', 'A.CSV', 'b.txt', '.txt', 'c.pdf', 'csv', 'csv.x', each of size 1
FilePool ==
  {[name |-> n, size |-> 1] :
     n \in {<<97, 46, 99, 115, 118>>, <<65, 46, 67, 83, 86>>, <<98, 46, 116, 120, 116>>,
            <<46, 116, 120, 116>>, <<99, 46, 112, 100, 102>>, <<99, 115, 118>>,
            <<99, 115, 118, 46, 120>>}}

\* the user chooses files in the file input
ChangeFiles ==
  /\ sitePage = "create"
  /\ \E newFiles \in SeqsUpTo(FilePool, MaxSelect) \ {<<>>} :
       /\ nextKey + Len(newFiles) <= MaxKeys
       /\ ChangeFilesWith(newFiles)
  /\ UNCHANGED <<sitePage, location, mainAsin, formVars, viewerVars, heroVars>>

\* a click on the clear button, which is not hidden
ClearFiles ==
  /\ sitePage = "create"
  /\ ~clearHidden
  /\ filesMap' = <<>>
  /\ fileList' = <<>>
  /\ clearHidden' = TRUE
  /\ UNCHANGED <<nextKey, sitePage, location, mainAsin, formVars, viewerVars, heroVars>>

\* a click on the delete button of an item of the list
DeleteFile ==
  /\ sitePage = "create"
  /\ \E k \in 1..Len(fileList) : DeleteFileAt(k)
  /\ UNCHANGED <<sitePage, location, mainAsin, formVars, viewerVars, heroVars>>

\* ------------------------------------------------------------ specifications
\* the creation page as its markup has it
FormStart ==
  /\ isProIntent = FALSE
  /\ modal = FALSE
  /\ paymentModal = FALSE
  /\ proLocked = TRUE
  /\ asinValidity = [main |-> "valid", comp |-> "valid"]
  /\ payDepositBtn = Button(FALSE, MarkupText)
  /\ submitBtn = Button(FALSE, MarkupText)
  /\ paymentCompleteBtn = Button(FALSE, MarkupText)
  /\ pendingPayload = NoPayload
  /\ requests = <<>>
  /\ inFlight = {}

\* the values of #comp-asin, #pro-email-input and #user-email
FormFields(comp, email, hidden) ==
  /\ compAsin = comp
  /\ proEmail = email
  /\ userEmail = hidden

\* a file input before any selection
FilesStart ==
  /\ filesMap = <<>>
  /\ fileList = <<>>
  /\ clearHidden = TRUE
  /\ nextKey = 0

\* the viewer page has neither the hero form nor the creation form
SiteIdle ==
  /\ sitePage = "viewer"
  /\ heroInput = <<>>
  /\ heroError = FALSE
  /\ heroBorder = "normal"
  /\ heroTimers = <<>>
  /\ location = <<>>
  /\ mainAsin = <<>>
  /\ FormFields(<<>>, <<>>, <<>>)
  /\ FormStart
  /\ FilesStart

InitRun ==
  /\ pc = "start"
  /\ report = NullItem
  /\ reportSource = "none"
  /\ sourcesRead = <<>>
  /\ fetchLog = <<>>
  /\ indexResp = Json("none", <<>>)
  /\ contentResp = [kind |-> "none", text |-> <<>>]
  /\ meta = InitialMeta
  /\ view = LoadingView
  /\ toc = <<>>
  /\ observed = {}
  /\ renders = 0
  /\ consoleErr = "none"

\* the page is loaded without id, or with the id 'abc' over any sources
InitSources ==
  IF reportId \in NoReportIds
  THEN localStore \in IdleLocalStores /\ reportsData \in IdleGlobalValues
  ELSE localStore \in LocalStores /\ reportsData \in GlobalValues

Init ==
  /\ reportId \in NoReportIds \cup {"abc"}
  /\ InitSources
  /\ markedLib \in {"absent", "ok", "broken"}
  /\ observerApi \in BOOLEAN
  /\ InitRun
  /\ SiteIdle

Next == StartInitReport \/ IndexSettles \/ ContentSettles \/ ClickLink \/ ObserverBatch

Spec == Init /\ [][Next]_vars

\* the heading texts of the table-of-contents specification:
\* 'Market Overview', 'A', 'A-1', '!!!', 'heading 1', two CJK characters
TocTexts ==
  { <<77, 97, 114, 107, 101, 116, 32, 79, 118, 101, 114, 118, 105, 101, 119>>,
    <<65>>, <<65, 45, 49>>, <<33, 33, 33>>,
    <<104, 101, 97, 100, 105, 110, 103, 32, 49>>, <<20013, 25991>> }

\* 'A', 'a', ' ', '-', '!', '_', '1', a CJK character
SlugAlphabet == {65, 97, 32, 45, 33, 95, 49, 20013}

TocBlocks == {Heading(2, t) : t \in TocTexts} \cup {Heading(5, <<65>>), RawHtml}

\* documents of up to MaxHeadings blocks, and one-heading documents for every
\* short text over SlugAlphabet
TocDocs ==
  (SeqsUpTo(TocBlocks, MaxHeadings) \ {<<>>})
    \cup {<<Heading(1, t)>> : t \in SeqsUpTo(SlugAlphabet, MaxTextLen)}

\* the page is loaded with the id of a local record that carries the document
TocInit ==
  /\ reportId = "abc"
  /\ \E d \in TocDocs :
       localStore = Json("array", <<MkItem([id |-> "abc", content |-> Inline(d)], "local", 1)>>)
  /\ reportsData = Json("undefined", <<>>)
  /\ markedLib = "ok"
  /\ observerApi = TRUE
  /\ InitRun
  /\ SiteIdle

TocNext == StartInitReport \/ ClickLink \/ ObserverBatch

TocSpec == TocInit /\ [][TocNext]_vars

\* renderMarkdown(markdownContent) is applied once more to the content that
\* is displayed
Rerender ==
  /\ pc = "done" /\ view.kind = "document" /\ Truthy(report.content)
  /\ renders < MaxRenders
  /\ Set(RenderInTry(Cur, report.content.text))

RerenderNext == StartInitReport \/ ClickLink \/ ObserverBatch \/ Rerender

RerenderSpec == TocInit /\ [][RerenderNext]_vars

\* the records of the metadata specification: with and without title, inline
\* content or a path, the requested id or another
MetaRecords(src) ==
  LET titled == {MkItem([id |-> i, content |-> c], src, 1) :
                   i \in {"abc", "xyz"}, c \in {NoContent, Inline(DocPlain)}}
  IN titled \cup {Untitled(r) : r \in titled}

\* the page is loaded with or without id over stores of one record
MetaInit ==
  /\ reportId \in {"<none>", "abc"}
  /\ IF reportId = "<none>"
     THEN /\ localStore = Json("array", <<Untitled(MkItem([id |-> "abc", content |-> NoContent], "local", 1))>>)
          /\ reportsData = Json("undefined", <<>>)
     ELSE /\ localStore \in {Json("absent", <<>>), Json("badjson", <<>>)}
                               \cup {Json("array", <<r>>) : r \in MetaRecords("local")}
          /\ reportsData \in {Json("undefined", <<>>)}
                                \cup {Json("array", <<r>>) : r \in MetaRecords("global")}
  /\ markedLib \in {"absent", "ok"}
  /\ observerApi = TRUE
  /\ InitRun
  /\ SiteIdle

MetaSpec == MetaInit /\ [][Next]_vars

\* 'B', ' ', a no-break space, '+', '&', '%', '#', '=', an apostrophe,
\* e with acute accent, a CJK character
AsinAlphabet == {66, 32, 160, 43, 38, 37, 35, 61, 39, 233, 20013}

\* the homepage with some text typed into the hero search field
HeroInit ==
  /\ reportId = "<none>"
  /\ localStore = Json("absent", <<>>)
  /\ reportsData = Json("undefined", <<>>)
  /\ markedLib = "ok"
  /\ observerApi = TRUE
  /\ InitRun
  /\ sitePage = "home"
  /\ heroInput \in SeqsUpTo(AsinAlphabet, MaxAsinLen)
  /\ heroError = FALSE
  /\ heroBorder = "normal"
  /\ heroTimers = <<>>
  /\ location = HomeUrl
  /\ mainAsin = <<>>
  /\ FormFields(<<>>, <<>>, <<>>)
  /\ FormStart
  /\ FilesStart

HeroNext == SubmitHeroForm \/ HeroTimerFires \/ LoadCreatePage

HeroSpec == HeroInit /\ [][HeroNext]_vars

\* texts typed into #main-asin: nothing, an ASIN, an ASIN after a space, 'B08'
MainInputs == {<<>>, Asin1, <<32>> \o Asin2, BadAsin}

\* ',', a line break, ' ', ', '
Separators == {<<44>>, <<10>>, <<32>>, <<44, 32>>}

RECURSIVE Joined(_)
\* n tokens with a separator between neighbours
Joined(n) ==
  IF n = 1 THEN {Asin1, Asin2, BadAsin}
  ELSE {a \o s \o tk : a \in Joined(n - 1), s \in Separators, tk \in {Asin1, Asin2, BadAsin}}

\* texts typed into #comp-asin: nothing, ',', and up to MaxTokens tokens
CompInputs == {<<>>, <<44>>} \cup UNION {Joined(n) : n \in 1..MaxTokens}

\* '', 'a', 'a@b'
Emails == {<<>>, <<97>>, <<97, 64, 98>>}

\* the viewer is not the page that runs
ViewerIdle ==
  /\ reportId = "<none>"
  /\ localStore = Json("absent", <<>>)
  /\ reportsData = Json("undefined", <<>>)
  /\ markedLib = "ok"
  /\ observerApi = TRUE
  /\ InitRun

HeroIdle ==
  /\ heroInput = <<>>
  /\ heroError = FALSE
  /\ heroBorder = "normal"
  /\ heroTimers = <<>>

\* 'create.html'
CreateUrl == SubSeq(CreatePrefix, 1, 11)

\* the creation page with its fields filled in, or the order page being loaded
SubmitInit ==
  /\ ViewerIdle
  /\ HeroIdle
  /\ FormStart
  /\ FilesStart
  /\ sitePage \in {"create", "orderLoading"}
  /\ IF sitePage = "create"
     THEN /\ location = CreateUrl
          /\ mainAsin \in MainInputs
          /\ compAsin \in CompInputs
          /\ proEmail \in Emails
          /\ userEmail \in {<<>>, <<97, 64, 98>>}
     ELSE /\ location \in {OrderUrl, OrderUrlWithId}
          /\ mainAsin = <<>>
          /\ FormFields(<<>>, <<>>, <<>>)

SubmitNext ==
  \/ PayDepositClick
  \/ CheckoutSettles
  \/ ModalFormSubmit
  \/ StartTaskSettles
  \/ LoadOrderPage
  \/ PaymentCompleteClick
  \/ OrderCheckoutSettles

SubmitSpec == SubmitInit /\ [][SubmitNext]_vars

\* the creation page with an ASIN or 'B08' as main ASIN, and an ASIN, nothing
\* or 'B08' as competitor
ModalInit ==
  /\ ViewerIdle
  /\ HeroIdle
  /\ FormStart
  /\ FilesStart
  /\ sitePage = "create"
  /\ location = CreateUrl
  /\ mainAsin \in {Asin1, BadAsin}
  /\ compAsin \in {Asin1, <<>>, BadAsin}
  /\ proEmail = <<>>
  /\ userEmail = <<>>

ModalNext ==
  \/ AnalysisFormSubmit
  \/ CloseModal
  \/ SwitchToPro
  \/ UnlockOverlayClick
  \/ TypeAsins

ModalSpec == ModalInit /\ [][ModalNext]_vars

\* the creation page with an empty file input; the markup decides whether the
\* clear button starts hidden
FileInit ==
  /\ ViewerIdle
  /\ HeroIdle
  /\ FormStart
  /\ FormFields(<<>>, <<>>, <<>>)
  /\ sitePage = "create"
  /\ location = CreateUrl
  /\ mainAsin = <<>>
  /\ filesMap = <<>>
  /\ fileList = <<>>
  /\ clearHidden \in BOOLEAN
  /\ nextKey = 0

FileNext == ChangeFiles \/ ClearFiles \/ DeleteFile

FileSpec == FileInit /\ [][FileNext]_vars

\* ---------------------------------------------------------------- properties
\* a collection holds a record with exactly this id
HasId(items, id) == \E k \in 1..Len(items) : items[k] # NullItem /\ items[k].id = id

\* the first record of the collection with this id
FirstWithId(items, id) ==
  items[CHOOSE k \in 1..Len(items) :
          /\ items[k] # NullItem /\ items[k].id = id
          /\ \A j \in 1..(k - 1) : items[j] = NullItem \/ items[j].id # id]

LocalHas == localStore.kind = "array" /\ HasId(localStore.items, reportId)
GlobalHas == reportsData.kind = "array" /\ HasId(reportsData.items, reportId)
RemoteHas == indexResp.kind = "array" /\ HasId(indexResp.items, reportId)
IndexFetched == \E i \in 1..Len(fetchLog) : fetchLog[i].kind = "index"
ContentFetched == \E i \in 1..Len(fetchLog) : fetchLog[i].kind = "content"
Finished == pc \in {"done", "escaped"}

\* C1: the resolved record is the first record with the requested id of the
\* highest-priority source that holds one (local store, then
\* window.reportsData, then the remote index); a source below the one that
\* matched is not consulted, and the index is fetched only when neither the
\* local store nor window.reportsData holds the id.
C1_ResolutionPriority ==
  /\ report # NullItem => report.id = reportId
  /\ reportSource = "local" =>
       /\ LocalHas /\ report = FirstWithId(localStore.items, reportId)
       /\ sourcesRead = <<"local">>
  /\ reportSource = "global" =>
       /\ ~LocalHas /\ GlobalHas /\ report = FirstWithId(reportsData.items, reportId)
       /\ sourcesRead = <<"local", "global">>
  /\ reportSource = "remote" =>
       /\ ~LocalHas /\ ~GlobalHas /\ RemoteHas
       /\ report = FirstWithId(indexResp.items, reportId)
  /\ IndexFetched => ~LocalHas /\ ~GlobalHas

\* a record of window.reportsData is resolved although the local store holds
\* records, and two records of window.reportsData carry the id
C1_Witness ==
  /\ reportSource = "global"
  /\ localStore.kind = "array" /\ localStore.items # <<>>
  /\ Len(reportsData.items) = 2
  /\ reportsData.items[1].id = "abc" /\ reportsData.items[2].id = "abc"
  /\ reportsData.items[1].content # reportsData.items[2].content

\* the id is in none of the three sources
AbsentEverywhere == reportId \notin NoReportIds /\ ~LocalHas /\ ~GlobalHas /\ ~RemoteHas

\* C2 as stated: for an id absent from every source, also when the index
\* fetch fails or the local store is malformed, initReport ends in the
\* Not-Found state with the link to the listing page, and nothing escapes.
C2_NotFoundAlways ==
  (Finished /\ AbsentEverywhere) => (pc = "done" /\ view = showError(NotFoundMsg))

\* a source that was consulted held a value the lookup throws on, or the index
\* fetch was rejected or its body was no JSON
LookupFailed ==
  \/ localStore.kind \in {"badjson", "null", "string"}
  \/ localStore.kind = "array" /\ \E k \in 1..Len(localStore.items) : localStore.items[k] = NullItem
  \/ reportsData.kind = "object"
  \/ indexResp.kind \in {"reject", "badjson", "nonarray"}
  \/ indexResp.kind = "array" /\ \E k \in 1..Len(indexResp.items) : indexResp.items[k] = NullItem

\* C2 amended: for an id absent from every source initReport ends, without an
\* exception escaping, in an error state with the link to the listing page:
\* the Not-Found state when every lookup ran through (the index fetch included,
\* with a non-success status or an array), the generic failure state when the
\* local store or window.reportsData is malformed or the index fetch is
\* rejected or malformed.
C2_NotFoundOrGeneric ==
  /\ reportId \notin NoReportIds => pc # "escaped"
  /\ (pc = "done" /\ AbsentEverywhere) =>
       /\ view.kind = "error" /\ view.link = "cases.html" /\ view.elems = <<>>
       /\ view.msg = (IF LookupFailed THEN GenericMsg ELSE NotFoundMsg)
       /\ report = NullItem

\* the index was fetched, answered with records of other ids, and the view
\* shows Not-Found
C2_Witness ==
  /\ pc = "done" /\ AbsentEverywhere
  /\ indexResp.kind = "array" /\ indexResp.items # <<>>
  /\ view = showError(NotFoundMsg)

\* C3: when initReport has ended, normally or by a failure on the sample path,
\* in the lookup, in the content fetch or in rendering, the view is no longer
\* the loading placeholder.
C3_LeavesLoading == Finished => view.kind # "loading"

\* C4: whatever the document, no raw markup of the document is live markup in
\* the view.
C4_NoLiveRawMarkup == \A p \in 1..Len(view.elems) : ~view.elems[p].live

\* the headings of the view that generateTOC handles: h1 to h4
IsTocHeading(e) == e.kind = "heading" /\ e.level \in 1..4
TocHeadings == {p \in 1..Len(view.elems) : IsTocHeading(view.elems[p])}

\* C5: after generateTOC the ids of the headings of one render are pairwise
\* distinct, whatever the heading texts (duplicates, empty slugs, texts that
\* look like a suffixed or fallback id), and so are the hrefs of the links.
C5_UniqueIds ==
  /\ \A p, q \in TocHeadings : p # q => view.elems[p].id # view.elems[q].id
  /\ \A j, k \in 1..Len(toc) : j # k => toc[j].href # toc[k].href

\* the headings 'A', 'A', 'A-1' were rendered, in this order
C5_Witness ==
  /\ view.kind = "document"
  /\ \E p, q, r \in TocHeadings :
       /\ p < q /\ q < r
       /\ view.elems[p].text = <<65>> /\ view.elems[q].text = <<65>>
       /\ view.elems[r].text = <<65, 45, 49>>

\* a-z, 0-9, underscore, hyphen, U+4E00..U+9FA5
AllowedIdChars == (97..122) \cup (48..57) \cup {95, Hyphen} \cup (19968..40869)

\* the 0-based index of the heading at position p among the h1-h4 headings
HeadingIndex(p) == Cardinality({q \in TocHeadings : q < p})

FallbackId(p) == HeadingPrefix \o NumStr(HeadingIndex(p))
EarlierIds(p) == {view.elems[q].id : q \in {r \in TocHeadings : r < p}}

IdWellFormed(p) ==
  /\ view.elems[p].id # <<>>
  /\ \A c \in 1..Len(view.elems[p].id) : view.elems[p].id[c] \in AllowedIdChars

\* C6 as stated: every id is non-empty and made of the allowed characters,
\* and a heading whose slug is empty gets exactly 'heading-<index>'.
C6_FallbackExact ==
  \A p \in TocHeadings :
    /\ IdWellFormed(p)
    /\ slugify(view.elems[p].text) = <<>> => view.elems[p].id = FallbackId(p)

\* C6 amended: every id is non-empty and made of the allowed characters; a
\* heading whose slug is empty gets 'heading-<index>' when no earlier heading
\* of the render has that id, and otherwise 'heading-<index>-n' for the least
\* n >= 1 that no earlier heading has.
C6_FallbackOrSuffixed ==
  \A p \in TocHeadings :
    /\ IdWellFormed(p)
    /\ slugify(view.elems[p].text) = <<>> =>
         IF FallbackId(p) \notin EarlierIds(p)
         THEN view.elems[p].id = FallbackId(p)
         ELSE \E n \in 1..Len(view.elems) :
                /\ view.elems[p].id = FallbackId(p) \o <<Hyphen>> \o NumStr(n)
                /\ view.elems[p].id \notin EarlierIds(p)
                /\ \A m \in 1..(n - 1) :
                     (FallbackId(p) \o <<Hyphen>> \o NumStr(m)) \in EarlierIds(p)

\* a heading with an empty slug met its fallback id already taken, and another
\* heading has an upper-case text
C6_Witness ==
  /\ view.kind = "document"
  /\ \E p \in TocHeadings :
       slugify(view.elems[p].text) = <<>> /\ FallbackId(p) \in EarlierIds(p)
  /\ \E p \in TocHeadings : \E c \in 1..Len(view.elems[p].text) :
       view.elems[p].text[c] \in 65..90

\* C7: at most one table-of-contents link is active.
C7_AtMostOneActive == Cardinality({k \in 1..Len(toc) : toc[k].active}) <= 1

\* a click or an observer callback moved the mark from the first link to the second
C7_Witness == Len(toc) >= 2 /\ toc[2].active /\ ~toc[1].active

C9_ContentUnavailable ==
  contentResp.kind = "notok" =>
    /\ report # NullItem /\ ~Truthy(report.content)
    /\ pc = "done"
    /\ consoleErr = ContentError
    /\ view = showError(GenericMsg)
    /\ toc = <<>> /\ observed = {}

\* the content fetch of a record of the remote index answered non-success
C9_Witness == contentResp.kind = "notok" /\ reportSource = "remote" /\ pc = "done"

\* renderMarkdown has been called and has returned or thrown
RenderReached ==
  \/ reportId \in NoReportIds /\ Finished
  \/ /\ pc = "done" /\ report # NullItem
     /\ Truthy(report.content) \/ contentResp.kind = "ok"

\* C10: without window.marked the view never shows a document or raw text: once
\* renderMarkdown has run, on the sample path or with a resolved record, the view
\* is the renderer error state; no link and no observer is created.
C10_RendererUnavailable ==
  markedLib = "absent" =>
    /\ view.kind # "document" /\ view.elems = <<>>
    /\ toc = <<>> /\ observed = {}
    /\ RenderReached => (pc = "done" /\ view = showError(RendererMsg))

\* the content of a resolved record was fetched and marked was missing
C10_Witness ==
  /\ markedLib = "absent" /\ contentResp.kind = "ok" /\ contentResp.text # <<>>
  /\ view = showError(RendererMsg)

\* C11: without an id parameter (or with an empty one) initReport reads neither
\* the local store nor window.reportsData and issues no fetch, and what it
\* renders is the built-in sample document.
C11_SampleNoIO ==
  reportId \in NoReportIds =>
    /\ sourcesRead = <<>> /\ fetchLog = <<>>
    /\ report = NullItem /\ reportSource = "none"
    /\ view.kind = "document" =>
         /\ Len(view.elems) = Len(sampleMarkdown)
         /\ \A p \in 1..Len(view.elems) :
              /\ view.elems[p].kind = sampleMarkdown[p].kind
              /\ view.elems[p].text = sampleMarkdown[p].text
    /\ (pc = "done" /\ markedLib = "ok") => view.kind = "document"

\* the sample document is shown on a page without id whose local store and
\* window.reportsData hold records
C11_Witness ==
  /\ reportId = "<none>" /\ pc = "done" /\ view.kind = "document"
  /\ localStore.kind = "array" /\ reportsData.kind = "array"
  /\ Len(toc) = 11

\* C12: no step of initReport or of its handlers changes localStorage
\* 'my_reports' or window.reportsData, and every fetch it issues is a GET.
C12_SourcesUnchanged ==
  [][/\ localStore' = localStore
     /\ reportsData' = reportsData
     /\ \A i \in 1..Len(fetchLog') : fetchLog'[i].method = "GET"]_vars

\* a record of the remote index was resolved and rendered while the local store
\* and window.reportsData hold other records
C12_Witness ==
  /\ pc = "done" /\ reportSource = "remote" /\ view.kind = "document"
  /\ localStore.kind = "array" /\ localStore.items # <<>>
  /\ reportsData.kind = "array" /\ reportsData.items # <<>>
  /\ Len(fetchLog) = 1

\* the hrefs of the links of a table of contents, in order
Hrefs(links) == [k \in 1..Len(links) |-> links[k].href]
\* the ids of the elements of a view, in order
ElemIds(v) == [p \in 1..Len(v.elems) |-> v.elems[p].id]

Suffixed(s, n) == IF n = 0 THEN s ELSE s \o <<Hyphen>> \o NumStr(n)

\* the h1-h4 headings before position p with the text of the heading at p
SameTextBefore(p) ==
  {q \in TocHeadings : q < p /\ view.elems[q].text = view.elems[p].text}

\* the ids of the h1-h4 headings before position p that have another text
OtherIdsBefore(p) ==
  {view.elems[q].id : q \in {r \in TocHeadings : r < p /\ view.elems[r].text # view.elems[p].text}}

\* C14 as stated: the headings with one text, whose slug is s, get the ids
\* s, s-1, s-2, ... in document order.
C14_SuffixSequence ==
  \A p \in TocHeadings :
    slugify(view.elems[p].text) # <<>> =>
      view.elems[p].id = Suffixed(slugify(view.elems[p].text), Cardinality(SameTextBefore(p)))

\* C14 amended: the headings with one text, whose slug is s, get the ids
\* s, s-1, s-2, ... in document order, as long as no earlier heading with
\* another text has taken one of these ids.
C14_SuffixSequenceUnlessTaken ==
  \A p \in TocHeadings :
    LET s == slugify(view.elems[p].text)
        n == Cardinality(SameTextBefore(p))
    IN (s # <<>> /\ \A m \in 0..n : Suffixed(s, m) \notin OtherIdsBefore(p)) =>
         view.elems[p].id = Suffixed(s, n)

\* 'Market Overview' three times: market-overview, market-overview-1,
\* market-overview-2
C14_Witness ==
  /\ view.kind = "document" /\ Len(toc) = 3
  /\ \A k \in 1..3 :
       toc[k].text = <<77, 97, 114, 107, 101, 116, 32, 79, 118, 101, 114, 118, 105, 101, 119>>
  /\ toc[2].href = <<35, 109, 97, 114, 107, 101, 116, 45, 111, 118, 101, 114, 118, 105, 101, 119, 45, 49>>
  /\ toc[3].href = <<35, 109, 97, 114, 107, 101, 116, 45, 111, 118, 101, 114, 118, 105, 101, 119, 45, 50>>

\* initReport met a failure: an exception (caught or not), Not-Found, or the
\* missing renderer
Failed == pc = "escaped" \/ consoleErr # "none" \/ view.kind = "error"

\* C15: after any failure the container holds the error state alone, also when
\* the failure came after the document was written into it.
C15_FailureShowsOnlyError ==
  (Finished /\ Failed) => (view.kind = "error" /\ view.elems = <<>>)

\* C16: once the container shows an error state, no step changes the view,
\* issues a fetch, reads a source again or moves initReport.
C16_ErrorIsTerminal ==
  [][view.kind = "error" =>
       /\ view' = view
       /\ fetchLog' = fetchLog
       /\ sourcesRead' = sourcesRead
       /\ pc' = pc /\ pc = "done"
       /\ report' = report]_vars

\* a link was clicked after the error state had replaced a rendered document
C16_Witness ==
  /\ view.kind = "error" /\ pc = "done"
  /\ \E k \in 1..Len(toc) : toc[k].active

\* C17: the step in which initReport ends with a rendered document that has
\* h1-h4 headings leaves the first link active and no other; rendering,
\* generateTOC and the activation are one step, so no observer callback runs
\* in between.
C17_FirstActiveAfterRender ==
  [][(pc # "done" /\ pc' = "done" /\ view'.kind = "document" /\ toc' # <<>>) =>
       /\ toc'[1].active
       /\ \A k \in 2..Len(toc') : ~toc'[k].active
       /\ observed' # {}]_vars

\* the sample document has just been rendered
C17_Witness ==
  /\ reportId = "" /\ pc = "done" /\ view.kind = "document"
  /\ Len(toc) = 11 /\ toc[1].active
  /\ Cardinality({k \in 1..Len(toc) : toc[k].active}) = 1

\* C18: the table of contents has one link per h1-h4 heading of the displayed
\* document, in document order, with the text of its heading and '#' and the
\* id of its heading as href; other elements get no id and no link.
C18_OneLinkPerHeading ==
  view.kind = "document" =>
    /\ Len(toc) = Cardinality(TocHeadings)
    /\ \A k \in 1..Len(toc) :
         /\ toc[k].target \in TocHeadings
         /\ toc[k].href = <<35>> \o view.elems[toc[k].target].id
         /\ toc[k].text = view.elems[toc[k].target].text
         /\ toc[k].cls = view.elems[toc[k].target].level
    /\ \A j, k \in 1..Len(toc) : j < k => toc[j].target < toc[k].target
    /\ \A p \in 1..Len(view.elems) : p \notin TocHeadings => view.elems[p].id = NoId

\* a document with an h5 heading between two h2 headings was rendered
C18_Witness ==
  /\ view.kind = "document" /\ Len(view.elems) = 3 /\ Len(toc) = 2
  /\ view.elems[2].kind = "heading" /\ view.elems[2].level = 5

\* C20: a click on link k leaves link k active and every other link inactive,
\* whatever was active before; the click handler is one step, so callbacks of
\* the observer run before or after it, not within.
C20_ClickActivatesOnlyThatLink ==
  [][\A k \in 1..Len(toc) :
       (ClickLinkAt(k) /\ view' = view /\ pc' = pc) =>
         /\ Len(toc') = Len(toc)
         /\ toc'[k].active
         /\ \A j \in 1..Len(toc') : j # k => ~toc'[j].active
         /\ Hrefs(toc') = Hrefs(toc)]_vars

\* the third link is active after the first was
C20_Witness ==
  /\ view.kind = "document" /\ Len(toc) = 3
  /\ toc[3].active /\ ~toc[1].active /\ ~toc[2].active


\* the characters of an encoded URI component: unreserved ones and %XX
UrlSafeChars == UriUnreserved \cup {37}

\* C19: a non-empty trimmed ASIN submitted in the hero form reaches the
\* creation page unchanged: the redirect is create.html?asin= followed by
\* the URL-encoded ASIN, and #main-asin is pre-filled with exactly the
\* trimmed ASIN; an empty or whitespace-only input never navigates
C19_AsinPassesThrough ==
  LET asin == Trim(heroInput)
      n == Len(CreatePrefix)
      carried == SubSeq(location, n + 1, Len(location))
  IN /\ asin = <<>> => (sitePage = "home" /\ location = HomeUrl)
     /\ sitePage \in {"navigating", "create"} =>
          /\ asin # <<>>
          /\ SubSeq(location, 1, n) = CreatePrefix
          /\ \A i \in 1..Len(carried) : carried[i] \in UrlSafeChars
          /\ Utf8Decode(PercentDecode(carried)) = asin
     /\ sitePage = "create" => mainAsin = asin

\* ' &' and e with acute accent typed; '&' and the accented e pre-filled
C19_Witness ==
  /\ sitePage = "create"
  /\ heroInput = <<32, 38, 233>>
  /\ mainAsin = <<38, 233>>

\* the batches the observer can deliver in the current state
Batches == SeqsUpTo([target : observed, isIntersecting : BOOLEAN], MaxBatch) \ {<<>>}

\* the positions of the intersecting entries of a batch
Hits(entries) == {k \in 1..Len(entries) : entries[k].isIntersecting}

\* the last intersecting entry of a batch
LastHit(entries) == CHOOSE k \in Hits(entries) : \A j \in Hits(entries) : j <= k

\* C21: a step that applies the observer callback to a batch leaves active
\* exactly the link of the last intersecting heading of the batch, whatever
\* the position of that heading in the document; a batch without an
\* intersecting heading leaves the links as they are
C21_LastIntersectingWins ==
  [][\A entries \in Batches :
       (toc' = ObserverCallback(toc, entries, 1) /\ view' = view) =>
         IF Hits(entries) = {} THEN toc' = toc
         ELSE \A j \in 1..Len(toc') :
                toc'[j].active <=> (toc'[j].target = entries[LastHit(entries)].target)]_vars

\* three headings observed, and the second one's link is the active one
C21_Witness ==
  /\ Cardinality(observed) = 3 /\ Len(toc) = 3
  /\ toc[2].active /\ ~toc[1].active /\ ~toc[3].active

\* the fetches that were issued and have not settled
InFlight ==
  {i \in 1..Len(fetchLog) :
     \/ fetchLog[i].kind = "index" /\ indexResp.kind = "none"
     \/ fetchLog[i].kind = "content" /\ contentResp.kind = "none"}

\* C22: at most one fetch is outstanding at any point of initReport; the
\* content fetch is issued for a record that matched the id, and when the
\* index was fetched, only after that fetch settled with an array that holds
\* the record
C22_FetchesSequential ==
  /\ Cardinality(InFlight) <= 1
  /\ InFlight # {} <=> pc \in {"awaitIndex", "awaitContent"}
  /\ ContentFetched =>
       /\ report # NullItem /\ report.id = reportId
       /\ fetchLog[Len(fetchLog)] = ContentFetch(report)
       /\ IndexFetched =>
            /\ fetchLog = <<IndexFetch, ContentFetch(report)>>
            /\ indexResp.kind = "array"
            /\ Find(indexResp.items, reportId) > 0
            /\ report = indexResp.items[Find(indexResp.items, reportId)]

\* the content fetch is in flight after the index fetch settled
C22_Witness ==
  /\ pc = "awaitContent"
  /\ Len(fetchLog) = 2
  /\ indexResp.kind = "array" /\ contentResp.kind = "none"

\* the title element, document.title and the breadcrumb label all carry title
TitlesAre(title) ==
  /\ meta.reportTitle = title
  /\ meta.docTitle = [title |-> title, suffix |-> TitleSuffix]
  /\ meta.breadcrumb = title

\* C23 as stated: the page title and the breadcrumb label are the resolved
\* record's title as soon as a record matched the id, and the page's own
\* otherwise
C23_TitlesSetOnMatch ==
  IF report # NullItem THEN TitlesAre(report.title) ELSE meta = InitialMeta

\* C23: as soon as a record matched the id (before its content is loaded, and
\* whatever becomes of the content fetch) the title element and
\* document.title carry its title, and the breadcrumb label carries it when
\* it is not empty and keeps the page's label when it is; without a matching
\* record, and on the sample path, title, date and label are the page's own
C23_TitlesSetOnMatchUnlessEmpty ==
  IF report # NullItem
  THEN /\ report.id = reportId
       /\ meta.reportTitle = report.title
       /\ meta.docTitle = [title |-> report.title, suffix |-> TitleSuffix]
       /\ meta.breadcrumb =
            IF report.title # NoTitle THEN report.title ELSE InitialMeta.breadcrumb
  ELSE meta = InitialMeta

\* the content fetch of a titled record failed and the titles stay updated
C23_Witness ==
  /\ pc = "done" /\ view.kind = "error"
  /\ report # NullItem /\ report.title # NoTitle
  /\ contentResp.kind = "notok"
  /\ TitlesAre(report.title)

\* the competitor ASINs the page has put into a request or into
\* 'pending_pro_payload'
SubmittedCompetitors ==
  {pendingPayload.competitor_asins[i] : i \in 1..Len(pendingPayload.competitor_asins)}
    \cup UNION {{requests[k].reference_asins[i] : i \in 2..Len(requests[k].reference_asins)} :
                  k \in 1..Len(requests)}

\* C24: every competitor ASIN of a payload built after validateAsins returned
\* true (the payload stored as 'pending_pro_payload', and the reference
\* ASINs of a start-task request) matches B followed by 9 alphanumeric
\* characters
C24_PayloadAsinsWellFormed ==
  \A asin \in SubmittedCompetitors : asinRegex(asin)

C27_FailureEnablesButton ==
  sitePage # "left" =>
    /\ payDepositBtn.disabled <=> IsAwaiting("pay")
    /\ submitBtn.disabled <=> IsAwaiting("submit")
    /\ paymentCompleteBtn.disabled <=> IsAwaiting("order")

\* the checkout request of the pay-deposit handler failed, the button can be
\* clicked again
C27_Witness ==
  /\ sitePage = "create"
  /\ Len(requests) = 1
  /\ inFlight = {}
  /\ payDepositBtn = Button(FALSE, "Try Again")

\* C28: at most one of the free modal and the payment modal is active;
\* isProIntent never returns from true to false; and a valid analysis-form
\* submit opens the payment modal when isProIntent is true and the free
\* modal otherwise
C28_ModalsExclusive ==
  [][/\ ~(modal' /\ paymentModal')
     /\ isProIntent => isProIntent'
     /\ (AnalysisFormSubmit /\ validateAsins(mainAsin, compAsin)) =>
          IF isProIntent THEN paymentModal' /\ modal' = modal
          ELSE modal' /\ paymentModal' = paymentModal]_vars

\* one entry less: the entries of map without the one at position i
WithoutEntry(map, i) == SubSeq(map, 1, i - 1) \o SubSeq(map, i + 1, Len(map))

\* C25: every file selection, deletion and clear-all leaves in filesMap only
\* files whose lower-cased name ends in .csv or .txt, under keys that differ,
\* and the clear button hidden exactly when the map is empty; a selection
\* adds one entry for every valid file chosen, the same file twice included,
\* and a deletion removes exactly the entry of the item clicked
C25_FilesMapWellKept ==
  [][/\ \A i \in 1..Len(filesMap') :
          \/ EndsWith(LowerCase(filesMap'[i].file.name), DotCsv)
          \/ EndsWith(LowerCase(filesMap'[i].file.name), DotTxt)
     /\ \A i, j \in 1..Len(filesMap') : filesMap'[i].key = filesMap'[j].key => i = j
     /\ clearHidden' <=> (filesMap' = <<>>)
     /\ \A newFiles \in SeqsUpTo(FilePool, MaxSelect) :
          ChangeFilesWith(newFiles) =>
            /\ Len(filesMap') = Len(filesMap) + Len(SelectSeq(newFiles, IsValidFile))
            /\ SubSeq(filesMap', 1, Len(filesMap)) = filesMap
     /\ \A k \in 1..Len(fileList) :
          DeleteFileAt(k) =>
            /\ Len(filesMap) = Len(fileList)
            /\ filesMap[k].key = fileList[k]
            /\ filesMap' = WithoutEntry(filesMap, k)]_vars

\* the same file is kept twice after a third entry was deleted
C25_Witness ==
  /\ Len(filesMap) = 2
  /\ filesMap[1].file = filesMap[2].file
  /\ filesMap[1].key # filesMap[2].key
  /\ nextKey = 3
  /\ ~clearHidden

====
